---- MODULE Spec2Model ----
(***************************************************************************)
(* ViennaTalksBout: the time-windowed PostBuffer (buffer.py), the          *)
(* TopicStore merge cycle (store.py), the extractor's retry loop           *)
(* (extractor.py), the IngestionPipeline with its post log (ingest.py,     *)
(* persistence.py) and the polling datasources, modelled as state machines.*)
(*                                                                         *)
(* BufSpec   : PostBuffer with its control thread (start/stop), the timer  *)
(*             threads and concurrent add_post callers.                    *)
(* StoreSpec : TopicStore with concurrent merge callers.                   *)
(* ExtSpec   : one TopicExtractor.extract call, attempt by attempt.        *)
(* PipeSpec  : IngestionPipeline: start with replay, _on_post, _on_batch,  *)
(*             stop step by step, and a crash followed by a restart.       *)
(* PollSpec  : a polling datasource: start, stop and its worker threads.   *)
(* CurSpec   : the since_id cursor of MastodonPollingDatasource._poll_once.*)
(* RssSpec   : RssDatasource._poll_feed, cycle by cycle, over two feeds.   *)
(* RedSpec   : RedditDatasource polls of the two listings.                 *)
(* DbSpec    : PostDatabase with concurrent callers.                       *)
(* ViewSpec  : TopicStore.merge and get_current_topics callers.            *)
(* LockSpec  : the pipeline's threads and the four component locks.        *)
(***************************************************************************)
EXTENDS Integers, Sequences, FiniteSets, TLC

(***************************************************************************)
(* Bounds of the model                                                     *)
(***************************************************************************)
MaxTime == 1        \* the wall clock runs over 0..MaxTime
MaxPosts == 3       \* number of add_post calls issued in a run
MaxStarts == 2      \* number of effective start() calls in a run
NumTimers == 2      \* threading.Timer objects alive at the same time
NumAdders == 2      \* threads calling add_post

(***************************************************************************)
(* Configuration of the PostBuffer instance (constructor arguments)        *)
(***************************************************************************)
max_batch_size == 2
window_seconds == 1

None == -1          \* Python's None for Optional[datetime] / Optional[Timer]

(***************************************************************************)
(* Threads: 0 is the control thread that calls start() and stop(),         *)
(* 1..NumTimers are threading.Timer objects (and their threads), the rest  *)
(* are datasource threads calling add_post.                                *)
(***************************************************************************)
Ctl == 0
TimerIds == 1..NumTimers
AdderIds == (NumTimers + 1)..(NumTimers + NumAdders)
Threads == {Ctl} \cup TimerIds \cup AdderIds

VARIABLES
  clock,         \* datetime.now(timezone.utc)
  running,       \* PostBuffer._running
  posts,         \* PostBuffer._posts
  window_start,  \* PostBuffer._window_start
  timer,         \* PostBuffer._timer (a timer id, or None)
  due,           \* due[k]: time at which Timer k is to fire
  pc,            \* position of every thread
  loc,           \* locals of the call a thread is in
  nextPost,      \* id of the next post handed to add_post
  starts,        \* effective start() calls so far
  emitted,       \* history: batches passed to on_batch, in invocation order
  failedAt,      \* history: index in emitted of the first on_batch call that
                 \* raised (0 when none has)
  cuts,          \* history: non-empty batches in the order they were swapped out
  accepted,      \* history: posts appended to _posts, in append order
  dropped,       \* history: posts offered while the buffer was not running
  escaped,       \* history: threads an on_batch exception propagated to
  capDone,       \* history: cap-reaching add_post calls that have returned
  skipped        \* history: some flush found no in-flight posts

bufVars == <<clock, running, posts, window_start, timer, due, pc, loc,
             nextPost, starts, emitted, failedAt, cuts, accepted, dropped,
             escaped, capDone, skipped>>

VARIABLES
  topics,        \* TopicStore._topics, in the dict's insertion order
  slock,         \* TopicStore._lock: the thread holding it, or None
  mpc,           \* position of every thread calling merge
  mloc,          \* locals of a merge call: now, source, seen_normalized and
                 \* the number of rows of extracted_topics iterated so far
  last,          \* history: the row applied by the latest loop iteration
  evicted,       \* history: topics removed by the latest _enforce_cap
  fresh          \* history: the keys the latest merge has inserted

storeVars == <<topics, slock, mpc, mloc, last, evicted, fresh>>

VARIABLES
  xcfg,          \* TopicExtractor._max_retries and ._initial_backoff
  xpc,           \* position of the thread inside TopicExtractor.extract
  attempt,       \* the loop variable of extract's for loop
  backoff,       \* the local backoff of extract
  result,        \* the value extract returns (set when xpc = "done")
  calls,         \* history: number of _call_api invocations of this extract
  sleeps,        \* history: durations passed to time.sleep, in order
  outcomes       \* history: what each attempt ended with, in order

extVars == <<xcfg, xpc, attempt, backoff, result, calls, sleeps, outcomes>>

VARIABLES
  created_at,    \* Post.created_at of every post id the datasource can deliver
  processed,     \* posts table: processed[id] is the row's flag, None if no row
  dbOpen,        \* PostDatabase._conn is open
  pbuf,          \* the posts held by the pipeline's PostBuffer
  brun,          \* the pipeline's PostBuffer is running
  ppc,           \* position of the main thread in start() / stop()
  stopAt,        \* index of the step of stop() to run next (0 outside stop)
  replay,        \* _recover_unprocessed_posts: the posts still to re-inject
  worker,        \* the datasource's worker thread: "off", "on" or "dead"
  ob,            \* per thread: the _on_batch call it is executing
  posts_received,     \* HealthMonitor._posts_received
  batches_processed,  \* HealthMonitor._batches_processed
  batches_failed,     \* HealthMonitor._batches_failed
  topics_extracted,   \* HealthMonitor._topics_extracted
  extracted,     \* history: the batches passed to extractor.extract, in order
  lastDone,      \* history: the _on_batch call that ended last, and how
  stopLog,       \* history: the steps of stop() that were run, in order
  stopFailed,    \* history: the step of stop() that raised ("" if none)
  replayed,      \* history: posts re-injected by this run, in order
  atStart,       \* history: ids unprocessed in the log when this run started
  saveFailed,    \* history: ids whose save_post raised inside _on_post
  offered,       \* history: ids _on_post passed to buffer.add_post
  crashes,       \* history: number of process crashes so far
  deliveries     \* history: number of _on_post calls so far

pipeVars == <<created_at, processed, dbOpen, pbuf, brun, ppc, stopAt, replay,
              worker, ob, posts_received, batches_processed, batches_failed,
              topics_extracted, extracted, lastDone, stopLog, stopFailed,
              replayed, atStart, saveFailed, offered, crashes, deliveries>>

VARIABLES
  stop_event,    \* MastodonPollingDatasource._stop_event is set
  thread,        \* MastodonPollingDatasource._thread (a worker id, or None)
  wpc,           \* position of every worker thread in _poll_loop
  dpc,           \* position of the thread calling start() and stop()
  startCalls,    \* history: start() calls so far
  stopCalls,     \* history: stop() calls so far
  stopReturned,  \* history: stop() has returned and start() was not called since
  callbacks,     \* history: on_post and on_error invocations so far
  late           \* history: those of them made while stopReturned

pollVars == <<stop_event, thread, wpc, dpc, startCalls, stopCalls,
              stopReturned, callbacks, late>>

\* MastodonPollingDatasource cursor: _since_id; history: the value the
\* datasource was constructed with, and one record per _poll_once
VARIABLES
  since_id, seed, hist

curVars == <<since_id, seed, hist>>

\* RssDatasource: _seen_ids, _etags, _last_modified (a feed without an entry
\* maps to the empty set or the empty text); history: the last _poll_feed cycle
\* and the number of cycles so far
VARIABLES
  seen_ids, etags, last_modified, cycle, cycles

rssVars == <<seen_ids, etags, last_modified, cycle, cycles>>

\* RedditDatasource: the two newest-seen markers, per stream; the listing the
\* API holds (the highest fullname created so far and the items still there);
\* history: how often each item was passed to on_post, the last poll, and the
\* number of polls
VARIABLES
  newest, redMax, redLive, redCount, redLast, redPolls

redVars == <<newest, redMax, redLive, redCount, redLast, redPolls>>

\* PostDatabase: the posts table (one row per id), the lock, each caller's
\* position, the clock; history: per id the completed save_post calls, those
\* that returned True and the deletions, the last statement that ran, and
\* the number of calls made
VARIABLES
  dbrows, dlock, dbpc, dclock, dsaves, dtrues, ddeleted, dlast, dcalls

dbVars == <<dbrows, dlock, dbpc, dclock, dsaves, dtrues, ddeleted, dlast, dcalls>>

\* A second TopicStore, built with max_active = wide_max_active, with merge
\* callers and one get_current_topics caller: the topics, the lock, each
\* thread's position and locals, the clock; history: the store a sequential
\* run of the completed merges yields, the reader's last result and the
\* number of calls made
VARIABLES
  vtopics, vlock, vpc, vloc, vclock, vshadow, vview, vcalls

viewVars == <<vtopics, vlock, vpc, vloc, vclock, vshadow, vview, vcalls>>

\* The four component mutexes (PostBuffer, TopicStore, HealthMonitor,
\* PostDatabase): the thread holding each ("" when free), what every thread
\* still has to do in the call it is in, and whether it is inside on_batch
VARIABLES
  lk, todo, incb

lockVars == <<lk, todo, incb>>

srcVars == <<curVars, rssVars, redVars, dbVars, viewVars, lockVars>>

otherVars == <<extVars, pipeVars, pollVars, srcVars>>

vars == <<bufVars, storeVars, otherVars>>

(***************************************************************************)
(* Helpers                                                                 *)
(***************************************************************************)
Range(s) == {s[i] : i \in 1..Len(s)}

NoLocals == [now |-> None, taken |-> <<>>, tws |-> None, post |-> 0, cap |-> FALSE]

\* PostBatch(posts=tuple(posts), window_start=window_start or now,
\*           window_end=now, post_count=len(posts))
PostBatch(ps, ws, now) ==
  [posts |-> ps,
   window_start |-> IF ws = None THEN now ELSE ws,
   window_end |-> now,
   post_count |-> Len(ps)]

\* add_post: "if not self._running: return"
AcceptsPost == running

\* the cap is tested with > instead of >=
ShouldFlushLate(ps) == Len(ps) > max_batch_size

\* add_post: "if len(self._posts) >= self._max_batch_size: should_flush = True"
ShouldFlush(ps) == Len(ps) >= max_batch_size

\* the swap forgets to install a fresh list
PostsAfterSwapKept(ps) == ps

\* _flush: "self._posts = []" after capturing the list
PostsAfterSwap(ps) == <<>>

\* the empty check is missing
SkipsEmptyNever(ps) == FALSE

\* _flush: "if not posts: return" -- TRUE when the callback is skipped
SkipsEmpty(ps) == ps = <<>>

\* the callback is invoked without try/except
PropagatesUncaught(raises) == raises

\* _flush: "try: self._on_batch(batch) except Exception: logger.exception"
\* TRUE when an exception raised by on_batch leaves _flush
Propagates(raises) == FALSE

\* timer ids not in use by a Timer object
FreeTimers == {k \in TimerIds : pc[k] = "free"}

\* the id of the Timer object created by thread t in _schedule_flush: a timer
\* thread ends with this call, so the new object takes over its id
NewTimer(t) ==
  IF t \in TimerIds THEN t
  ELSE CHOOSE k \in FreeTimers : \A j \in FreeTimers : k <= j

\* where a thread continues when _flush returns
AfterFlush(t) == IF t \in TimerIds THEN "sched" ELSE "idle"

\* history: this add_post call made the in-flight length reach max_batch_size
ReachesCap(ps) == Len(ps) >= max_batch_size

\* history of add_post calls that reached the cap, recorded when they return
CapReturn(t, own) ==
  IF t \in AdderIds /\ loc[t].cap
  THEN capDone \cup {[post |-> loc[t].post, own |-> own]}
  ELSE capDone

(***************************************************************************)
(* TopicStore (store.py)                                                   *)
(***************************************************************************)
\* bounds
MaxRows == 2        \* rows in one extraction list
NumMergers == 2     \* threads calling merge

\* configuration of the TopicStore instance (constructor arguments); scores
\* are counted in units of 1/ScoreUnit, so that halving is exact as it is
\* for the floats of the program
ScoreUnit == 160
max_active == 1
stale_after == 2
min_score == 8      \* 0.05
DecayNum == 1       \* decay_factor = DecayNum / DecayDen = 0.5
DecayDen == 2

MergerIds == 1..NumMergers

\* inputs of merge: topic strings as sequences of characters, the scores
\* parse_topics can produce (clamped to [0, 1]) and the datasource ids
TopicNames == {<<"A">>, <<" ", "a", " ">>, <<"b">>, <<" ">>}
Scores == {0, 32}
Sources == {"mastodon", "rss"}
Rows == [topic : TopicNames, score : Scores]

\* str.lower() on one character
Lower(c) == CASE c = "A" -> "a" [] c = "B" -> "b" [] c = "C" -> "c" [] OTHER -> c

IsSpace(c) == c = " "

RECURSIVE LStrip(_)
LStrip(s) == IF s # <<>> /\ IsSpace(Head(s)) THEN LStrip(Tail(s)) ELSE s

RECURSIVE RStrip(_)
RStrip(s) ==
  IF s # <<>> /\ IsSpace(s[Len(s)]) THEN RStrip(SubSeq(s, 1, Len(s) - 1)) ELSE s

\* str.strip()
Strip(s) == LStrip(RStrip(s))

RECURSIVE Collapse(_)
\* " ".join(s.split()) on a stripped string: runs of whitespace become one space
Collapse(s) ==
  IF s = <<>> THEN <<>>
  ELSE IF IsSpace(Head(s))
       THEN <<" ">> \o Collapse(LStrip(s))
       ELSE <<Head(s)>> \o Collapse(Tail(s))

\* normalize_topic_name; NFC leaves the characters of TopicNames as they are
normalize_topic_name(name) ==
  Collapse(Strip([i \in 1..Len(name) |-> Lower(name[i])]))

\* the decay is applied twice
DecayTwice(score) == (score * DecayNum * DecayNum) \div (DecayDen * DecayDen)

\* topic.score *= self._decay_factor
Decay(score) == (score * DecayNum) \div DecayDen

\* index of the entry with key norm in the dict, 0 when absent
IndexOf(tps, norm) ==
  IF \E i \in 1..Len(tps) : tps[i].normalized_name = norm
  THEN CHOOSE i \in 1..Len(tps) : tps[i].normalized_name = norm
  ELSE 0

\* the match forgets the transition to growing
MatchUpdateKeepsState(topic, et, now) ==
  [topic EXCEPT !.score = et.score,
                !.last_seen = now,
                !.batches_since_seen = 0]

\* _merge_locked, the branch "if norm in self._topics"
MatchUpdate(topic, et, now) ==
  [topic EXCEPT !.score = et.score,
                !.last_seen = now,
                !.batches_since_seen = 0,
                !.state = IF topic.state \in {"entering", "shrinking"}
                          THEN "growing" ELSE topic.state]

\* _merge_locked, the branch that inserts Topic(...)
NewTopic(et, norm, source, now) ==
  [name |-> Strip(et.topic),
   normalized_name |-> norm,
   score |-> et.score,
   first_seen |-> now,
   last_seen |-> now,
   source |-> source,
   state |-> "entering",
   batches_since_seen |-> 0]

\* _merge_locked, one iteration of "for et in extracted_topics"
ApplyRow(tps, et, source, now) ==
  LET norm == normalize_topic_name(et.topic)
      i == IndexOf(tps, norm)
  IN IF norm = <<>> THEN tps
     ELSE IF i # 0 THEN [tps EXCEPT ![i] = MatchUpdate(tps[i], et, now)]
     ELSE Append(tps, NewTopic(et, norm, source, now))

RECURSIVE ApplyRows(_, _, _, _)
ApplyRows(tps, rows, source, now) ==
  IF rows = <<>> THEN tps
  ELSE ApplyRows(ApplyRow(tps, Head(rows), source, now), Tail(rows), source, now)

\* the topic turns stale one merge late
IsStaleLate(bss) == bss > stale_after

\* "if topic.batches_since_seen >= self._stale_after"
IsStale(bss) == bss >= stale_after

\* _merge_locked, the body of "for norm, topic in self._topics.items()" for a
\* topic that was not seen
AgeUnseen(topic) ==
  LET bss == topic.batches_since_seen + 1
      st == IF topic.state \in {"entering", "growing"} /\ IsStale(bss)
            THEN "shrinking" ELSE topic.state
  IN [topic EXCEPT !.batches_since_seen = bss,
                   !.state = st,
                   !.score = IF st = "shrinking" THEN Decay(topic.score)
                             ELSE topic.score]

\* the removal of decayed topics is missing
DisappearsNever(topic) == FALSE

\* "if topic.score < self._min_score: to_remove.append(norm)", reached only
\* for an unseen topic that is shrinking
Disappears(topic) == topic.state = "shrinking" /\ topic.score < min_score

RECURSIVE ProcessUnseen(_, _)
ProcessUnseen(tps, seen) ==
  IF tps = <<>> THEN <<>>
  ELSE LET t == Head(tps)
           rest == ProcessUnseen(Tail(tps), seen)
       IN IF t.normalized_name \in seen THEN <<t>> \o rest
          ELSE IF Disappears(AgeUnseen(t)) THEN rest
          ELSE <<AgeUnseen(t)>> \o rest

\* the cap is enforced one topic too late
OverCapOffByOne(tps) == Len(tps) > max_active + 1

\* _enforce_cap: "while len(self._topics) > self._max_active"
OverCap(tps) == Len(tps) > max_active

\* the eviction takes the highest scorer
HighestIndex(tps) ==
  CHOOSE i \in 1..Len(tps) :
    /\ \A j \in 1..Len(tps) : tps[i].score >= tps[j].score
    /\ \A j \in 1..(i - 1) : tps[j].score < tps[i].score

\* min(self._topics, key=score): the first entry, in the dict's order, whose
\* score is the lowest
LowestIndex(tps) ==
  CHOOSE i \in 1..Len(tps) :
    /\ \A j \in 1..Len(tps) : tps[i].score <= tps[j].score
    /\ \A j \in 1..(i - 1) : tps[j].score > tps[i].score

RemoveAt(tps, i) == SubSeq(tps, 1, i - 1) \o SubSeq(tps, i + 1, Len(tps))

RECURSIVE EnforceCap(_)
EnforceCap(tps) ==
  IF OverCap(tps) THEN EnforceCap(RemoveAt(tps, LowestIndex(tps))) ELSE tps

NoRow == [topic |-> <<>>, score |-> 0]

NoMergeLocals == [now |-> None, source |-> "", seen |-> {}, nrows |-> 0]

StoreStart ==
  /\ topics = <<>>
  /\ slock = None
  /\ mpc = [t \in MergerIds |-> "idle"]
  /\ mloc = [t \in MergerIds |-> NoMergeLocals]
  /\ last = NoRow
  /\ evicted = 0
  /\ fresh = {}

(***************************************************************************)
(* TopicExtractor (extractor.py): the retry loop of extract.  Durations    *)
(* are integers in units of the smallest initial_backoff of the model.     *)
(***************************************************************************)
MaxRetries == 2     \* max_retries ranges over 0..MaxRetries
MaxBackoff == 2     \* initial_backoff ranges over 1..MaxBackoff

DEFAULT_MAX_RETRIES == 3
DEFAULT_INITIAL_BACKOFF == 1

ExtConfigs == [max_retries : 0..MaxRetries, initial_backoff : 1..MaxBackoff]

\* what one pass through the try block of extract ends with: _parse_response
\* returned a list (empty or not), _call_api raised anthropic.APIError,
\* something raised another Exception, or _parse_response raised ValueError
Successes == {"topics", "no_topics"}
Failures == {"api_error", "exception", "malformed"}

\* the list _parse_response returns
Parsed(o) == IF o = "topics" THEN <<"t">> ELSE <<>>

\* for attempt in range(1 + self._max_retries)
AttemptsOffByOne(cfg) == 2 + cfg.max_retries
Attempts(cfg) == 1 + cfg.max_retries

\* if attempt < self._max_retries: time.sleep(backoff); backoff *= 2
SleepsAfter(a, cfg) == a < cfg.max_retries

ExtStart(cfg) ==
  /\ xcfg = cfg
  /\ xpc = "idle"
  /\ attempt = 0
  /\ backoff = 0
  /\ result = <<>>
  /\ calls = 0
  /\ sleeps = <<>>
  /\ outcomes = <<>>

(***************************************************************************)
(* IngestionPipeline (ingest.py) with its PostDatabase (persistence.py)    *)
(* and HealthMonitor (health.py).  The PostBuffer is reduced here to its   *)
(* list of posts and its running flag; BufSpec has its interleavings.      *)
(***************************************************************************)
NumPostIds == 2     \* distinct post ids the datasource can deliver
MaxDeliveries == 3  \* _on_post calls in a behaviour
MaxCrashes == 1     \* process crashes (each followed by a restart)

PostIds == 1..NumPostIds

\* the threads that run pipeline code: the one that calls start() and stop(),
\* the datasource's worker and the buffer's timer thread
PThreads == {"main", "worker", "timer"}

\* created_at values: an instant in hours UTC and the UTC offset, in hours,
\* of the zone it was given in (parse_status keeps the zone of the status)
Stamps == {[utc |-> 10, off |-> 2], [utc |-> 11, off |-> 0]}

\* post.created_at.isoformat(): the local wall time followed by the offset;
\* as both have a fixed width the text compares like this pair
IsoFormat(c) == <<c.utc + c.off, c.off>>

\* the comparison SQLite applies to two TEXT values of the created_at column
TextLeq(a, b) == a[1] < b[1] \/ (a[1] = b[1] /\ a[2] <= b[2])

Perms(S) ==
  {q \in [1..Cardinality(S) -> S] :
     \A i, j \in 1..Cardinality(S) : i # j => q[i] # q[j]}

\* SELECT * FROM posts WHERE processed = 0 ORDER BY created_at
UnprocessedIds == {p \in PostIds : processed[p] = 0}
OrderedByCreatedAtText(q) ==
  \A i, j \in 1..Len(q) :
     i < j => TextLeq(IsoFormat(created_at[q[i]]), IsoFormat(created_at[q[j]]))
get_unprocessed_posts == {q \in Perms(UnprocessedIds) : OrderedByCreatedAtText(q)}

\* what extractor.extract returned to _on_batch
ExtractedTopics(o) ==
  IF o = "topics" THEN <<[topic |-> <<"b">>, score |-> 16]>> ELSE <<>>

\* the failure branch merges the empty list as well
MergesAlways(tl) == TRUE

\* _on_batch: "if topics:" guards record_batch_success and store.merge
Merges(tl) == tl # <<>>

\* TopicStore.merge as one step: the rows, the unseen topics, the cap
SeenNames(tl) == {normalize_topic_name(tl[i].topic) : i \in 1..Len(tl)} \ {<<>>}
Merge(tps, tl, source, now) ==
  EnforceCap(ProcessUnseen(ApplyRows(tps, tl, source, now), SeenNames(tl)))

\* only the posts of a batch that yielded topics are marked
MarksBatchOnSuccess(out) == out = "topics"

\* _on_batch marks the batch whatever the extractor returned
MarksBatch(out) == TRUE

NoBatchCall == [pos |-> "idle", batch |-> <<>>, out |-> ""]
BatchCall(batch) == [pos |-> "extract", batch |-> batch, out |-> ""]
NoneDone == [batch |-> <<>>, out |-> "", exit |-> ""]

\* stop() runs the buffer before the datasources
StopOrderBufferFirst ==
  <<"buffer", "datasources", "health_timer", "snapshot", "health_log",
    "cleanup", "close", "signals">>

\* the steps of IngestionPipeline.stop in program order
StopOrder ==
  <<"datasources", "buffer", "health_timer", "snapshot", "health_log",
    "cleanup", "close", "signals">>

\* steps that call into I/O or a datasource and can raise
Fallible == {"datasources", "snapshot", "cleanup", "close"}

\* where stop() continues after step k raised: cleanup_old_posts and close
\* share one try block, every other fallible step has its own
AfterFailure(k) == IF StopOrder[k] = "cleanup" THEN k + 2 ELSE k + 1

\* the in-memory state of a freshly built pipeline
PipeFresh ==
  /\ dbOpen = TRUE
  /\ pbuf = <<>>
  /\ brun = FALSE
  /\ ppc = "init"
  /\ stopAt = 0
  /\ replay = <<>>
  /\ worker = "off"
  /\ ob = [t \in PThreads |-> NoBatchCall]
  /\ posts_received = 0
  /\ batches_processed = 0
  /\ batches_failed = 0
  /\ topics_extracted = 0
  /\ stopLog = <<>>
  /\ stopFailed = ""
  /\ replayed = <<>>
  /\ atStart = {}

PipeStart(stamps) ==
  /\ created_at = stamps
  /\ processed = [p \in PostIds |-> None]
  /\ PipeFresh
  /\ extracted = <<>>
  /\ lastDone = NoneDone
  /\ saveFailed = {}
  /\ offered = {}
  /\ crashes = 0
  /\ deliveries = 0

PipeIdle == PipeStart([p \in PostIds |-> [utc |-> 11, off |-> 0]])

(***************************************************************************)
(* The polling datasources (mastodon/polling.py; news/rss.py and           *)
(* reddit/datasource.py have the same start, stop and loop)                *)
(***************************************************************************)
MaxWorkers == 2     \* threads a datasource object creates in a behaviour
MaxStopCalls == 2   \* stop() calls in a behaviour
MaxCallbacks == 2   \* on_post / on_error invocations in a behaviour

WorkerIds == 1..MaxWorkers

\* what one _poll_once ends with: a status to emit, nothing new, a
\* requests.RequestException, or another exception (parse_status raising
\* ValueError on a created_at text it cannot parse)
PollOutcomes == {"post", "nothing", "error", "raises"}

\* _poll_loop: "except requests.RequestException"
Caught(o) == o = "error"

\* a worker that exists and has not left _poll_loop; "dead" is a worker that
\* an uncaught exception ended
Alive(w) == wpc[w] \notin {"unborn", "exited", "dead"}

\* positions in which a worker stays longer than the 10 seconds that stop()
\* waits in join: requests.get(..., timeout=30) and a callback that runs a
\* synchronous flush
Blocking == {"poll", "on_post", "on_error"}

PollIdle ==
  /\ stop_event = FALSE
  /\ thread = None
  /\ wpc = [w \in WorkerIds |-> "unborn"]
  /\ dpc = "idle"
  /\ startCalls = 0
  /\ stopCalls = 0
  /\ stopReturned = FALSE
  /\ callbacks = 0
  /\ late = 0

(***************************************************************************)
(* MastodonPollingDatasource._poll_once: the since_id cursor               *)
(***************************************************************************)
MaxId == 3
MaxItems == 2
MaxPolls == 3

StatusIds == 1..MaxId

\* a status of the response: its id and whether validate_status and
\* filter_status let it through ("ok") or the loop skips it ("skipped")
Statuses == [id : StatusIds, kind : {"ok", "skipped"}]

\* the timeline API answers newest-first: ids strictly decreasing
Responses ==
  {r \in UNION {[1..n -> Statuses] : n \in 0..MaxItems} :
     \A i \in 1..Len(r), j \in 1..Len(r) : i < j => r[i].id > r[j].id}

\* str(): Mastodon ids are JSON strings of digits, which str() returns as
\* they are
Str(id) == id

\* reversed(statuses)
Reversed(s) == [i \in 1..Len(s) |-> s[Len(s) + 1 - i]]

\* the ids passed to on_post by the loop over the first n statuses of rev
RECURSIVE Emitted(_, _)
Emitted(rev, n) ==
  IF n = 0 THEN <<>>
  ELSE IF rev[n].kind = "ok" THEN Append(Emitted(rev, n - 1), rev[n].id)
       ELSE Emitted(rev, n - 1)

\* the cursor is taken from the last status of the response
CursorFromOldest(statuses) == Str(statuses[Len(statuses)].id)

\* _since_id = str(statuses[0]["id"])
Cursor(statuses) == Str(statuses[1].id)

\* the request's params: since_id is sent when the cursor is set
Params(since) ==
  IF since # None THEN [local |-> "true", since_id |-> since]
  ELSE [local |-> "true"]

CurIdle ==
  /\ since_id = None
  /\ seed = None
  /\ hist = <<>>

(***************************************************************************)
(* RssDatasource._poll_feed                                                *)
(***************************************************************************)
MaxEntries == 2
MaxCycles == 2

FeedNames == {"orf", "standard"}

\* an entry of the parsed feed: its id and link ("" when the feed gives
\* none) and whether title and summary leave any text
Entries == {[id |-> "a", link |-> "l", text |-> TRUE],
            [id |-> "a", link |-> "", text |-> FALSE],
            [id |-> "", link |-> "l", text |-> TRUE],
            [id |-> "", link |-> "", text |-> TRUE]}

Feeds == UNION {[1..n -> Entries] : n \in 0..MaxEntries}

\* a header that is not there
NoHeader == ""

\* no post: _entry_to_post returned None
NoPost == <<>>

RespHeaders == {[etag |-> NoHeader, lm |-> NoHeader], [etag |-> "e1", lm |-> "m1"],
                [etag |-> "e2", lm |-> "m2"]}

\* _get_entry_id: entry.get("id") or entry.get("link") or ""
_get_entry_id(e) == IF e.id # "" THEN e.id ELSE IF e.link # "" THEN e.link ELSE ""

\* _entry_to_post: None when the text is empty, else the post, whose id is
\* "rss:{feed.name}:{entry_id}"
_entry_to_post(e, feed) ==
  IF ~e.text THEN NoPost ELSE <<"rss", feed, _get_entry_id(e)>>

\* the request's headers
RssHeaders(feed) ==
  [inm |-> etags[feed], ims |-> last_modified[feed]]

\* the indices of the entries whose id is not in previous_ids, in feed order
RECURSIVE NewEntries(_, _, _)
NewEntries(entries, previous_ids, n) ==
  IF n = 0 THEN <<>>
  ELSE IF _get_entry_id(entries[n]) \notin previous_ids
       THEN Append(NewEntries(entries, previous_ids, n - 1), n)
       ELSE NewEntries(entries, previous_ids, n - 1)

\* current_ids
CurrentIds(entries) == {_get_entry_id(entries[i]) : i \in 1..Len(entries)}

\* the entries of new_entries[1..n] that on_post is called with
RECURSIVE RssEmitted(_, _, _, _)
RssEmitted(entries, new, feed, n) ==
  IF n = 0 THEN <<>>
  ELSE IF _entry_to_post(entries[new[n]], feed) # NoPost
       THEN Append(RssEmitted(entries, new, feed, n - 1), new[n])
       ELSE RssEmitted(entries, new, feed, n - 1)

NoCycle == [feed |-> "", status |-> 0, sent |-> [inm |-> NoHeader, ims |-> NoHeader],
            entries |-> <<>>, hdr |-> [etag |-> NoHeader, lm |-> NoHeader],
            got |-> <<>>, raised |-> FALSE,
            before |-> [ids |-> {}, etag |-> NoHeader, lm |-> NoHeader]]

RssIdle ==
  /\ seen_ids = [f \in FeedNames |-> {}]
  /\ etags = [f \in FeedNames |-> NoHeader]
  /\ last_modified = [f \in FeedNames |-> NoHeader]
  /\ cycle = NoCycle
  /\ cycles = 0

(***************************************************************************)
(* RedditDatasource._poll_submissions / _poll_comments                     *)
(***************************************************************************)
MaxFullname == 3
ListingLimit == 2
MaxRedPolls == 3

\* the two listings: subreddit.new and subreddit.comments
Streams == {"submissions", "comments"}

\* fullnames in the order of creation; 0 stands for no marker yet
Fullnames == 1..MaxFullname

\* the items of S, newest first
RECURSIVE NewestFirst(_)
NewestFirst(S) ==
  IF S = {} THEN <<>>
  ELSE LET m == CHOOSE x \in S : \A y \in S : y <= x
       IN <<m>> \o NewestFirst(S \ {m})

\* list(subreddit.new(limit=...)): the newest items that still exist
Listing(live) ==
  LET all == NewestFirst(live)
  IN SubSeq(all, 1, IF Len(all) < ListingLimit THEN Len(all) ELSE ListingLimit)

\* the items of the listing in front of the marker: the loop breaks at the
\* marker and takes the whole listing when the marker is not in it
RECURSIVE BeforeMarker(_, _, _)
BeforeMarker(listing, marker, i) ==
  IF i > Len(listing) THEN <<>>
  ELSE IF marker # 0 /\ listing[i] = marker THEN <<>>
  ELSE <<listing[i]>> \o BeforeMarker(listing, marker, i + 1)

\* the loop over reversed(new): the valid items, in that order
RECURSIVE RedEmitted(_, _, _)
RedEmitted(rev, invalid, n) ==
  IF n = 0 THEN <<>>
  ELSE IF rev[n] \notin invalid THEN Append(RedEmitted(rev, invalid, n - 1), rev[n])
       ELSE RedEmitted(rev, invalid, n - 1)

NoRedPoll == [stream |-> "", listing |-> <<>>, got |-> <<>>]

RedIdle ==
  /\ newest = [s \in Streams |-> 0]
  /\ redMax = [s \in Streams |-> 0]
  /\ redLive = [s \in Streams |-> {}]
  /\ redCount = [s \in Streams |-> [i \in Fullnames |-> 0]]
  /\ redLast = NoRedPoll
  /\ redPolls = 0

(***************************************************************************)
(* PostDatabase: save_post, mark_batch_processed, cleanup_old_posts        *)
(***************************************************************************)
NumDbIds == 2
NumDbThreads == 2
MaxDbTime == 2
MaxDbCalls == 4

DbIds == 1..NumDbIds
DbThreads == 1..NumDbThreads

\* instants in half seconds: an even one has microsecond = 0
DbTimes == 0..MaxDbTime

\* the texts a post of one id can carry
DbTexts == {"t1", "t2"}

\* retention_hours, in half seconds
Retentions == {0, 1}

\* datetime.isoformat() of a UTC instant: the seconds, then ".ffffff" unless
\* the microseconds are 0, then "+00:00"; the third component is the
\* character after the seconds, "+" (0) sorting before "." (1)
IsoUtc(t) == <<t \div 2, IF t % 2 = 0 THEN 0 ELSE 1, t % 2>>

\* a < b as SQLite compares two TEXT values
TextLess(a, b) ==
  \/ a[1] < b[1]
  \/ a[1] = b[1] /\ a[2] < b[2]
  \/ a[1] = b[1] /\ a[2] = b[2] /\ a[3] < b[3]

NoDbRow == [there |-> FALSE, text |-> "", received_at |-> IsoUtc(0), processed |-> 0]

\* post_to_row: the row of a post received at instant now (processed takes
\* the column default 0)
post_to_row(text, now) ==
  [there |-> TRUE, text |-> text, received_at |-> IsoUtc(now), processed |-> 0]

\* INSERT OR REPLACE: the new row takes the place of the old one
InsertOrReplace(rows, id, row) ==
  [rows |-> [rows EXCEPT ![id] = row], rowcount |-> 1]

\* INSERT OR IGNORE INTO posts ...: nothing happens when the id is there
InsertOrIgnore(rows, id, row) ==
  IF rows[id].there THEN [rows |-> rows, rowcount |-> 0]
  ELSE [rows |-> [rows EXCEPT ![id] = row], rowcount |-> 1]

\* UPDATE posts SET processed = 1 WHERE id = ?, for each id of the list
UpdateProcessed(rows, ids) ==
  [i \in DbIds |-> IF i \in ids /\ rows[i].there
                   THEN [rows[i] EXCEPT !.processed = 1] ELSE rows[i]]

\* DELETE without the test of the processed column
DeletedAnyOld(rows, cutoff) ==
  {i \in DbIds : rows[i].there /\ TextLess(rows[i].received_at, cutoff)}

\* DELETE FROM posts WHERE processed = 1 AND received_at < ?
Deleted(rows, cutoff) ==
  {i \in DbIds : rows[i].there /\ rows[i].processed = 1
                 /\ TextLess(rows[i].received_at, cutoff)}

DbIdleCall == [op |-> "idle", id |-> 0, row |-> NoDbRow, ids |-> {},
               cutoff |-> IsoUtc(0), cut |-> 0]

NoStatement == [op |-> "none", id |-> 0, ids |-> {}, cut |-> 0, ret |-> FALSE,
                before |-> [i \in DbIds |-> NoDbRow]]

DbIdle ==
  /\ dbrows = [i \in DbIds |-> NoDbRow]
  /\ dlock = 0
  /\ dbpc = [t \in DbThreads |-> DbIdleCall]
  /\ dclock = 0
  /\ dsaves = [i \in DbIds |-> 0]
  /\ dtrues = [i \in DbIds |-> 0]
  /\ ddeleted = [i \in DbIds |-> 0]
  /\ dlast = NoStatement
  /\ dcalls = 0

\* TopicStore(max_active=2): room for two topics, so that a reader's list
\* has an order
wide_max_active == 2

\* inputs of merge on the wide store: three topics, two scores, one source
ViewRows == {[topic |-> <<"A">>, score |-> 32], [topic |-> <<"b">>, score |-> 0],
             [topic |-> <<"c">>, score |-> 32]}
ViewSource == "mastodon"
ViewLists == {<<>>} \cup {<<r>> : r \in ViewRows}
               \cup {<<r, s>> : r \in ViewRows, s \in ViewRows}

Reader == NumMergers + 1
ViewThreads == MergerIds \cup {Reader}

\* _enforce_cap of the wide store
RECURSIVE WideCap(_)
WideCap(tps) ==
  IF Len(tps) > wide_max_active THEN WideCap(RemoveAt(tps, LowestIndex(tps))) ELSE tps

\* merge as one step on the wide store
WideMerge(tps, tl, source, now) ==
  WideCap(ProcessUnseen(ApplyRows(tps, tl, source, now), SeenNames(tl)))

\* "with self._lock:" is entered whether or not the lock is held
LockFreeAlways(l) == TRUE

\* "with self._lock:" is entered when no thread holds the lock
LockFree(l) == l = None

\* get_current_topics: one new Topic per stored topic, field by field; own
\* tells that the element is an object of its own, not the stored one
CopyOf(tps) == [i \in 1..Len(tps) |-> [own |-> TRUE, topic |-> tps[i]]]

\* list.sort(key=score, reverse=True): stable insertion by descending score
RECURSIVE SortByScoreDesc(_)
InsertDesc(x, s) ==
  LET k == Cardinality({i \in 1..Len(s) : s[i].topic.score >= x.topic.score})
  IN SubSeq(s, 1, k) \o <<x>> \o SubSeq(s, k + 1, Len(s))
SortByScoreDesc(s) ==
  IF s = <<>> THEN <<>>
  ELSE InsertDesc(s[Len(s)], SortByScoreDesc(SubSeq(s, 1, Len(s) - 1)))

NoViewLocals == [now |-> None, source |-> "", list |-> <<>>, rest |-> <<>>]
NoView == [raw |-> <<>>, at |-> <<>>, result |-> <<>>, before |-> <<>>]

ViewIdle ==
  /\ vtopics = <<>>
  /\ vlock = None
  /\ vpc = [t \in ViewThreads |-> "idle"]
  /\ vloc = [t \in ViewThreads |-> NoViewLocals]
  /\ vclock = 0
  /\ vshadow = <<>>
  /\ vview = NoView
  /\ vcalls = 0

Locks == {"buffer", "store", "health", "db"}
LockThreads == {"worker", "timer", "main", "web"}

\* "with self._lock:" around a body that makes no call: the lock is taken
\* and released
With(l) == <<[op |-> "acq", x |-> l], [op |-> "rel", x |-> l]>>

\* what on_batch is: the pipeline's _on_batch (the extractor returned topics
\* or none), a callback that calls add_post on the same buffer, or no batch
Callbacks == {"topics", "no_topics", "adds", "none"}

\* IngestionPipeline._on_batch: extract; record_batch_success, merge and
\* get_topic_count, or record_batch_failure; save_snapshot (which calls
\* get_current_topics); mark_batch_processed
OnBatchOps(cb) ==
  CASE cb = "topics" ->
         <<[op |-> "extract", x |-> ""]>> \o With("health") \o With("store")
           \o With("store") \o With("store") \o With("db")
    [] cb = "no_topics" ->
         <<[op |-> "extract", x |-> ""]>> \o With("health") \o With("store")
           \o With("db")
    [] cb = "adds" -> With("buffer")
    [] OTHER -> <<>>

\* on_batch is called before the buffer lock is released
FlushHoldingLock(cb) ==
  IF cb = "none" THEN With("buffer")
  ELSE <<[op |-> "acq", x |-> "buffer"], [op |-> "call", x |-> ""]>> \o OnBatchOps(cb)
         \o <<[op |-> "ret", x |-> ""], [op |-> "rel", x |-> "buffer"]>>

\* PostBuffer._flush: the swap under the lock, then, if there were posts,
\* the call of on_batch
Flush(cb) ==
  With("buffer")
    \o IF cb = "none" THEN <<>>
       ELSE <<[op |-> "call", x |-> ""]>> \o OnBatchOps(cb) \o <<[op |-> "ret", x |-> ""]>>

\* _on_post on the datasource thread: record_post, save_post, add_post (a
\* duplicate returns after save_post; below the cap add_post does not flush)
OnPostOps(kind, cb) ==
  With("health") \o With("db")
    \o CASE kind = "duplicate" -> <<>>
         [] kind = "below_cap" -> With("buffer")
         [] OTHER -> With("buffer") \o Flush(cb)

\* _on_timer: _flush, _schedule_flush
OnTimerOps(cb) == Flush(cb) \o With("buffer")

\* IngestionPipeline.stop from the buffer on: buffer.stop() with its flush,
\* the final save_snapshot, check_and_log, cleanup_old_posts
StopOps(cb) ==
  With("buffer") \o Flush(cb) \o With("store") \o With("health") \o With("db")

\* the health timer's get_status and the web server's get_current_topics
ReadOps == {With("health"), With("store")}

\* the calls a thread can make
Jobs(t) ==
  CASE t = "worker" -> {OnPostOps(k, cb) : k \in {"duplicate", "below_cap", "cap"},
                                            cb \in Callbacks \ {"none"}}
    [] t = "timer" -> {OnTimerOps(cb) : cb \in Callbacks}
    [] t = "main" -> {StopOps(cb) : cb \in Callbacks}
    [] OTHER -> ReadOps

LockIdle ==
  /\ lk = [l \in Locks |-> ""]
  /\ todo = [t \in LockThreads |-> <<>>]
  /\ incb = [t \in LockThreads |-> FALSE]

SrcIdle == CurIdle /\ RssIdle /\ RedIdle /\ DbIdle /\ ViewIdle /\ LockIdle

\* PostBuffer.__init__
BufStart ==
  /\ clock = 0
  /\ running = FALSE
  /\ posts = <<>>
  /\ window_start = None
  /\ timer = None
  /\ due = [k \in TimerIds |-> 0]
  /\ pc = [t \in Threads |-> IF t \in TimerIds THEN "free" ELSE "idle"]
  /\ loc = [t \in Threads |-> NoLocals]
  /\ nextPost = 1
  /\ starts = 0
  /\ emitted = <<>>
  /\ failedAt = 0
  /\ cuts = <<>>
  /\ accepted = <<>>
  /\ dropped = {}
  /\ escaped = {}
  /\ capDone = {}
  /\ skipped = FALSE

\* the components that a specification does not exercise stay as constructed
ExtIdle ==
  ExtStart([max_retries |-> DEFAULT_MAX_RETRIES,
            initial_backoff |-> DEFAULT_INITIAL_BACKOFF])

BufInit ==
  /\ BufStart
  /\ StoreStart
  /\ ExtIdle
  /\ PipeIdle
  /\ PollIdle
  /\ SrcIdle

\* datetime.now(timezone.utc): the wall clock has advanced by some amount
\* since it was last read
Now == clock..MaxTime

\* PostBuffer.start, the part under the lock
Start ==
  /\ pc[Ctl] = "idle"
  /\ IF running
     THEN UNCHANGED <<clock, running, window_start, posts, pc, starts>>
     ELSE /\ starts < MaxStarts
          /\ FreeTimers # {}
          /\ running' = TRUE
          /\ \E now \in Now : clock' = now /\ window_start' = now
          /\ posts' = <<>>
          /\ starts' = starts + 1
          /\ pc' = [pc EXCEPT ![Ctl] = "sched"]
  /\ UNCHANGED <<timer, due, loc, nextPost, emitted, failedAt, cuts, accepted,
                 dropped, escaped, capDone, skipped>>
  /\ UNCHANGED <<storeVars, otherVars>>

\* PostBuffer._schedule_flush, called by start() or by _on_timer
ScheduleFlush(t) ==
  /\ pc[t] = "sched"
  /\ IF ~running
     THEN /\ pc' = [pc EXCEPT ![t] = IF t = Ctl THEN "idle" ELSE "free"]
          /\ UNCHANGED <<clock, timer, due>>
     ELSE LET k == NewTimer(t) IN
            /\ timer' = k
            /\ \E now \in Now : /\ clock' = now
                                /\ due' = [due EXCEPT ![k] = now + window_seconds]
            /\ pc' = [pc EXCEPT ![t] = IF t = Ctl THEN "idle" ELSE "free",
                                ![k] = "pending"]
  /\ UNCHANGED <<running, posts, window_start, loc, nextPost, starts,
                 emitted, failedAt, cuts, accepted, dropped, escaped, capDone, skipped>>
  /\ UNCHANGED <<storeVars, otherVars>>

\* PostBuffer.stop, the part under the lock; Timer.cancel() stops a timer
\* that has not fired yet and has no effect on one that has
Stop ==
  /\ pc[Ctl] = "idle"
  /\ IF ~running
     THEN UNCHANGED <<running, timer, pc, due>>
     ELSE /\ running' = FALSE
          /\ timer' = None
          /\ IF timer # None /\ pc[timer] = "pending"
             THEN /\ pc' = [pc EXCEPT ![Ctl] = "flush_now", ![timer] = "free"]
                  /\ due' = [due EXCEPT ![timer] = 0]
             ELSE /\ pc' = [pc EXCEPT ![Ctl] = "flush_now"]
                  /\ UNCHANGED due
  /\ UNCHANGED <<clock, posts, window_start, loc, nextPost, starts, emitted, failedAt,
                 cuts, accepted, dropped, escaped, capDone, skipped>>
  /\ UNCHANGED <<storeVars, otherVars>>

\* threading.Timer k expires and its thread enters _on_timer
TimerFire(k) ==
  /\ pc[k] = "pending"
  /\ \E now \in Now : now >= due[k] /\ clock' = now
  /\ pc' = [pc EXCEPT ![k] = "flush_now"]
  /\ due' = [due EXCEPT ![k] = 0]
  /\ loc' = [loc EXCEPT ![k] = NoLocals]
  /\ UNCHANGED <<running, posts, window_start, timer, nextPost, starts,
                 emitted, failedAt, cuts, accepted, dropped, escaped, capDone, skipped>>
  /\ UNCHANGED <<storeVars, otherVars>>

\* PostBuffer.add_post, the part under the lock
AddPost(t) ==
  /\ pc[t] = "idle"
  /\ nextPost <= MaxPosts
  /\ nextPost' = nextPost + 1
  /\ dropped' = IF running THEN dropped ELSE dropped \cup {nextPost}
  /\ IF ~AcceptsPost
     THEN UNCHANGED <<posts, accepted, pc, loc, capDone>>
     ELSE /\ posts' = Append(posts, nextPost)
          /\ accepted' = Append(accepted, nextPost)
          /\ IF ShouldFlush(posts')
             THEN /\ pc' = [pc EXCEPT ![t] = "flush_now"]
                  /\ loc' = [loc EXCEPT ![t] = [NoLocals EXCEPT
                                                  !.post = nextPost,
                                                  !.cap = ReachesCap(posts')]]
                  /\ UNCHANGED capDone
             ELSE /\ capDone' = IF ReachesCap(posts')
                                THEN capDone \cup {[post |-> nextPost, own |-> FALSE]}
                                ELSE capDone
                  /\ UNCHANGED <<pc, loc>>
  /\ UNCHANGED <<clock, running, window_start, timer, due, starts, emitted, failedAt,
                 cuts, escaped, skipped>>
  /\ UNCHANGED <<storeVars, otherVars>>

\* _flush: "now = datetime.now(timezone.utc)", before the lock is taken
FlushReadNow(t) ==
  /\ pc[t] = "flush_now"
  /\ \E now \in Now : clock' = now /\ loc' = [loc EXCEPT ![t].now = now]
  /\ pc' = [pc EXCEPT ![t] = "flush_lock"]
  /\ UNCHANGED <<running, posts, window_start, timer, due, nextPost,
                 starts, emitted, failedAt, cuts, accepted, dropped, escaped, capDone, skipped>>
  /\ UNCHANGED <<storeVars, otherVars>>

\* _flush: the swap under the lock, then the empty check and the batch
FlushSwap(t) ==
  /\ pc[t] = "flush_lock"
  /\ posts' = PostsAfterSwap(posts)
  /\ window_start' = loc[t].now
  /\ IF SkipsEmpty(posts)
     THEN /\ pc' = [pc EXCEPT ![t] = AfterFlush(t)]
          /\ loc' = [loc EXCEPT ![t] = NoLocals]
          /\ capDone' = CapReturn(t, FALSE)
          /\ skipped' = TRUE
          /\ UNCHANGED cuts
     ELSE /\ pc' = [pc EXCEPT ![t] = "flush_emit"]
          /\ loc' = [loc EXCEPT ![t].taken = posts, ![t].tws = window_start]
          /\ cuts' = Append(cuts, PostBatch(posts, window_start, loc[t].now))
          /\ UNCHANGED <<capDone, skipped>>
  /\ UNCHANGED <<clock, running, timer, due, nextPost, starts, emitted, failedAt,
                 accepted, dropped, escaped>>
  /\ UNCHANGED <<storeVars, otherVars>>

\* _flush: the on_batch callback, which returns or raises
FlushEmit(t) ==
  /\ pc[t] = "flush_emit"
  /\ \E raises \in BOOLEAN :
       /\ emitted' = Append(emitted,
                            PostBatch(loc[t].taken, loc[t].tws, loc[t].now))
       /\ failedAt' = IF raises /\ failedAt = 0 THEN Len(emitted') ELSE failedAt
       /\ IF Propagates(raises)
          THEN /\ escaped' = escaped \cup {t}
               /\ pc' = [pc EXCEPT ![t] = IF t \in TimerIds THEN "free" ELSE "idle"]
          ELSE /\ escaped' = escaped
               /\ pc' = [pc EXCEPT ![t] = AfterFlush(t)]
  /\ capDone' = CapReturn(t, loc[t].post \in Range(loc[t].taken))
  /\ loc' = [loc EXCEPT ![t] = NoLocals]
  /\ UNCHANGED <<clock, running, posts, window_start, timer, due, nextPost,
                 starts, cuts, accepted, dropped, skipped>>
  /\ UNCHANGED <<storeVars, otherVars>>

BufNext ==
  \/ Start
  \/ Stop
  \/ \E t \in {Ctl} \cup TimerIds : ScheduleFlush(t)
  \/ \E k \in TimerIds : TimerFire(k)
  \/ \E t \in AdderIds : AddPost(t)
  \/ \E t \in Threads : FlushReadNow(t)
  \/ \E t \in Threads : FlushSwap(t)
  \/ \E t \in Threads : FlushEmit(t)

BufSpec == BufInit /\ [][BufNext]_vars

(***************************************************************************)
(* TopicStore: concurrent callers of merge                                 *)
(***************************************************************************)
StoreInit == BufInit

\* merge is called with a source; "if now is None: now = datetime.now(...)"
\* is executed before the lock is taken
MergeReadNow(t) ==
  /\ mpc[t] = "idle"
  /\ \E now \in Now, source \in Sources :
       /\ clock' = now
       /\ mloc' = [mloc EXCEPT ![t] = [NoMergeLocals EXCEPT !.now = now,
                                                            !.source = source]]
  /\ mpc' = [mpc EXCEPT ![t] = "lock"]
  /\ UNCHANGED <<topics, slock, last, evicted, fresh>>
  /\ UNCHANGED <<running, posts, window_start, timer, due, pc, loc, nextPost,
                 starts, emitted, failedAt, cuts, accepted, dropped, escaped,
                 capDone, skipped>>
  /\ UNCHANGED otherVars

\* merge: "with self._lock:"
MergeAcquire(t) ==
  /\ mpc[t] = "lock"
  /\ slock = None
  /\ slock' = t
  /\ mpc' = [mpc EXCEPT ![t] = "rows"]
  /\ fresh' = {}
  /\ UNCHANGED <<topics, mloc, last, evicted>>
  /\ UNCHANGED <<bufVars, otherVars>>

\* _merge_locked: one iteration of "for et in extracted_topics"
MergeRow(t) ==
  /\ mpc[t] = "rows"
  /\ mloc[t].nrows < MaxRows
  /\ \E et \in Rows :
       /\ topics' = ApplyRow(topics, et, mloc[t].source, mloc[t].now)
       /\ mloc' = [mloc EXCEPT
                     ![t].nrows = @ + 1,
                     ![t].seen = @ \cup ({normalize_topic_name(et.topic)} \ {<<>>})]
       /\ last' = et
       /\ fresh' = IF Len(topics') > Len(topics)
                   THEN fresh \cup {normalize_topic_name(et.topic)} ELSE fresh
  /\ UNCHANGED <<slock, mpc, evicted>>
  /\ UNCHANGED <<bufVars, otherVars>>

\* _merge_locked: the list is exhausted; the loop over the unseen topics and
\* the removal of those in to_remove
MergeUnseen(t) ==
  /\ mpc[t] = "rows"
  /\ topics' = ProcessUnseen(topics, mloc[t].seen)
  /\ mpc' = [mpc EXCEPT ![t] = "cap"]
  /\ last' = NoRow
  /\ UNCHANGED <<slock, mloc, evicted, fresh>>
  /\ UNCHANGED <<bufVars, otherVars>>

\* _merge_locked: self._enforce_cap(), then merge releases the lock
MergeEnforceCap(t) ==
  /\ mpc[t] = "cap"
  /\ topics' = EnforceCap(topics)
  /\ evicted' = Len(topics) - Len(topics')
  /\ slock' = None
  /\ mpc' = [mpc EXCEPT ![t] = "idle"]
  /\ mloc' = [mloc EXCEPT ![t] = NoMergeLocals]
  /\ UNCHANGED <<last, fresh>>
  /\ UNCHANGED <<bufVars, otherVars>>

StoreNext ==
  \/ \E t \in MergerIds : MergeReadNow(t)
  \/ \E t \in MergerIds : MergeAcquire(t)
  \/ \E t \in MergerIds : MergeRow(t)
  \/ \E t \in MergerIds : MergeUnseen(t)
  \/ \E t \in MergerIds : MergeEnforceCap(t)

StoreSpec == StoreInit /\ [][StoreNext]_vars

(***************************************************************************)
(* TopicExtractor.extract, one attempt per step                            *)
(***************************************************************************)
ExtInit ==
  /\ \E cfg \in ExtConfigs : ExtStart(cfg)
  /\ BufStart
  /\ StoreStart
  /\ PipeIdle
  /\ PollIdle
  /\ SrcIdle

\* extract up to the loop: an empty batch returns [] at once
Extract(post_count) ==
  /\ xpc = "idle"
  /\ IF post_count = 0
     THEN /\ result' = <<>>
          /\ xpc' = "done"
          /\ UNCHANGED <<attempt, backoff>>
     ELSE /\ backoff' = xcfg.initial_backoff
          /\ attempt' = 0
          /\ xpc' = "try"
          /\ UNCHANGED result
  /\ UNCHANGED <<xcfg, calls, sleeps, outcomes>>
  /\ UNCHANGED <<bufVars, storeVars, pipeVars, pollVars, srcVars>>

\* one iteration of the for loop up to the return or the except clause
ExtractAttempt(o) ==
  /\ xpc = "try"
  /\ attempt < Attempts(xcfg)
  /\ calls' = calls + 1
  /\ outcomes' = Append(outcomes, o)
  /\ IF o \in Successes
     THEN /\ result' = Parsed(o)
          /\ xpc' = "done"
          /\ UNCHANGED attempt
     ELSE /\ IF SleepsAfter(attempt, xcfg)
             THEN /\ xpc' = "sleep"
                  /\ UNCHANGED attempt
             ELSE /\ xpc' = "try"
                  /\ attempt' = attempt + 1
          /\ UNCHANGED result
  /\ UNCHANGED <<xcfg, backoff, sleeps>>
  /\ UNCHANGED <<bufVars, storeVars, pipeVars, pollVars, srcVars>>

\* time.sleep(backoff); backoff *= 2; then the next iteration
ExtractSleep ==
  /\ xpc = "sleep"
  /\ sleeps' = Append(sleeps, backoff)
  /\ backoff' = backoff * 2
  /\ attempt' = attempt + 1
  /\ xpc' = "try"
  /\ UNCHANGED <<xcfg, result, calls, outcomes>>
  /\ UNCHANGED <<bufVars, storeVars, pipeVars, pollVars, srcVars>>

\* the loop is exhausted: logger.error(...); return []
ExtractGiveUp ==
  /\ xpc = "try"
  /\ attempt >= Attempts(xcfg)
  /\ result' = <<>>
  /\ xpc' = "done"
  /\ UNCHANGED <<xcfg, attempt, backoff, calls, sleeps, outcomes>>
  /\ UNCHANGED <<bufVars, storeVars, pipeVars, pollVars, srcVars>>

ExtNext ==
  \/ \E n \in 0..1 : Extract(n)
  \/ \E o \in Successes \cup Failures : ExtractAttempt(o)
  \/ ExtractSleep
  \/ ExtractGiveUp

ExtSpec == ExtInit /\ [][ExtNext]_vars /\ WF_vars(ExtNext)

(***************************************************************************)
(* IngestionPipeline: start, _recover_unprocessed_posts, _on_post,         *)
(* _on_batch, stop, and a crash of the process                             *)
(***************************************************************************)
PipeInit ==
  /\ \E stamps \in [PostIds -> Stamps] : PipeStart(stamps)
  /\ BufStart
  /\ StoreStart
  /\ ExtIdle
  /\ PollIdle
  /\ SrcIdle

pipeFrame == <<bufVars, extVars, pollVars, srcVars, slock, mpc, mloc, last, evicted,
               fresh>>

\* PostBuffer.add_post called by thread t: a post offered to a buffer that is
\* not running is dropped; the post that fills the batch makes t flush, and
\* the flush calls _on_batch on t
BufferAdd(t, p) ==
  IF ~brun THEN UNCHANGED <<pbuf, ob>>
  ELSE IF Len(pbuf) + 1 >= max_batch_size
       THEN /\ pbuf' = <<>>
            /\ ob' = [ob EXCEPT ![t] = BatchCall(Append(pbuf, p))]
       ELSE /\ pbuf' = Append(pbuf, p)
            /\ UNCHANGED ob

\* start(): self._buffer.start()
PipelineStart ==
  /\ ppc = "init"
  /\ brun' = TRUE
  /\ atStart' = UnprocessedIds
  /\ ppc' = "recover"
  /\ UNCHANGED <<created_at, processed, dbOpen, pbuf, stopAt, replay, worker,
                 ob, posts_received, batches_processed, batches_failed,
                 topics_extracted, extracted, lastDone, stopLog, stopFailed,
                 replayed, saveFailed, offered, crashes, deliveries>>
  /\ UNCHANGED <<pipeFrame, topics>>

\* _recover_unprocessed_posts: posts = self._db.get_unprocessed_posts()
Recover ==
  /\ ppc = "recover"
  /\ \E q \in get_unprocessed_posts : replay' = q
  /\ ppc' = "replay"
  /\ UNCHANGED <<created_at, processed, dbOpen, pbuf, brun, stopAt, worker,
                 ob, posts_received, batches_processed, batches_failed,
                 topics_extracted, extracted, lastDone, stopLog, stopFailed,
                 replayed, atStart, saveFailed, offered, crashes, deliveries>>
  /\ UNCHANGED <<pipeFrame, topics>>

\* _recover_unprocessed_posts: one iteration of "for post in posts"
ReplayPost ==
  /\ ppc = "replay"
  /\ replay # <<>>
  /\ ob["main"].pos = "idle"
  /\ BufferAdd("main", Head(replay))
  /\ replay' = Tail(replay)
  /\ replayed' = IF brun THEN Append(replayed, Head(replay)) ELSE replayed
  /\ UNCHANGED <<created_at, processed, dbOpen, brun, ppc, stopAt, worker,
                 posts_received, batches_processed, batches_failed,
                 topics_extracted, extracted, lastDone, stopLog, stopFailed,
                 atStart, saveFailed, offered, crashes, deliveries>>
  /\ UNCHANGED <<pipeFrame, topics>>

\* start(): ds.start(self._on_post, ...) for the datasource, then the main
\* thread blocks on the stop event
StartDatasources ==
  /\ ppc = "replay"
  /\ replay = <<>>
  /\ ob["main"].pos = "idle"
  /\ worker' = "on"
  /\ ppc' = "running"
  /\ UNCHANGED <<created_at, processed, dbOpen, pbuf, brun, stopAt, replay,
                 ob, posts_received, batches_processed, batches_failed,
                 topics_extracted, extracted, lastDone, stopLog, stopFailed,
                 replayed, atStart, saveFailed, offered, crashes, deliveries>>
  /\ UNCHANGED <<pipeFrame, topics>>

\* _on_post(post) on the datasource's worker.  An exception of save_post
\* leaves _on_post; the poll loop of the Mastodon polling datasource catches
\* requests.RequestException only, so the worker thread ends with it.
OnPost(p, fails) ==
  /\ worker = "on"
  /\ ob["worker"].pos = "idle"
  /\ deliveries < MaxDeliveries
  /\ deliveries' = deliveries + 1
  /\ posts_received' = posts_received + 1
  /\ IF fails \/ ~dbOpen
     THEN /\ saveFailed' = saveFailed \cup {p}
          /\ worker' = "dead"
          /\ UNCHANGED <<processed, pbuf, ob, offered>>
     ELSE IF processed[p] # None
     THEN UNCHANGED <<processed, pbuf, ob, offered, saveFailed, worker>>
     ELSE /\ processed' = [processed EXCEPT ![p] = 0]
          /\ offered' = offered \cup {p}
          /\ BufferAdd("worker", p)
          /\ UNCHANGED <<saveFailed, worker>>
  /\ UNCHANGED <<created_at, dbOpen, brun, ppc, stopAt, replay,
                 batches_processed, batches_failed, topics_extracted,
                 extracted, lastDone, stopLog, stopFailed, replayed, atStart,
                 crashes>>
  /\ UNCHANGED <<pipeFrame, topics>>

\* the buffer's timer fires with posts in flight: _flush calls _on_batch on
\* the timer thread
TimerFlush ==
  /\ brun
  /\ pbuf # <<>>
  /\ ob["timer"].pos = "idle"
  /\ ob' = [ob EXCEPT !["timer"] = BatchCall(pbuf)]
  /\ pbuf' = <<>>
  /\ UNCHANGED <<created_at, processed, dbOpen, brun, ppc, stopAt, replay,
                 worker, posts_received, batches_processed, batches_failed,
                 topics_extracted, extracted, lastDone, stopLog, stopFailed,
                 replayed, atStart, saveFailed, offered, crashes, deliveries>>
  /\ UNCHANGED <<pipeFrame, topics>>

\* _on_batch up to the snapshot: extract, then the health counters and the
\* merge
OnBatchExtract(t, o) ==
  /\ ob[t].pos = "extract"
  /\ LET batch == ob[t].batch
         tl == ExtractedTopics(o)
     IN /\ extracted' = Append(extracted, batch)
        /\ IF tl # <<>>
           THEN /\ batches_processed' = batches_processed + 1
                /\ topics_extracted' = topics_extracted + Len(tl)
                /\ UNCHANGED batches_failed
           ELSE IF Len(batch) > 0
           THEN /\ batches_failed' = batches_failed + 1
                /\ UNCHANGED <<batches_processed, topics_extracted>>
           ELSE /\ batches_processed' = batches_processed + 1
                /\ UNCHANGED <<batches_failed, topics_extracted>>
        /\ topics' = IF Merges(tl) THEN Merge(topics, tl, "mastodon", clock)
                     ELSE topics
  /\ ob' = [ob EXCEPT ![t].pos = "snapshot", ![t].out = o]
  /\ UNCHANGED <<created_at, processed, dbOpen, pbuf, brun, ppc, stopAt,
                 replay, worker, posts_received, lastDone, stopLog, stopFailed,
                 replayed, atStart, saveFailed, offered, crashes, deliveries>>
  /\ UNCHANGED pipeFrame

\* _on_batch: save_snapshot() and cleanup_snapshots(); an OSError leaves
\* _on_batch and is caught by the buffer's _flush
OnBatchSnapshot(t, fails) ==
  /\ ob[t].pos = "snapshot"
  /\ IF fails
     THEN /\ ob' = [ob EXCEPT ![t] = NoBatchCall]
          /\ lastDone' = [batch |-> ob[t].batch, out |-> ob[t].out,
                          exit |-> "raised"]
     ELSE /\ ob' = [ob EXCEPT ![t].pos = "mark"]
          /\ UNCHANGED lastDone
  /\ UNCHANGED <<created_at, processed, dbOpen, pbuf, brun, ppc, stopAt,
                 replay, worker, posts_received, batches_processed,
                 batches_failed, topics_extracted, extracted, stopLog,
                 stopFailed, replayed, atStart, saveFailed, offered, crashes,
                 deliveries>>
  /\ UNCHANGED <<pipeFrame, topics>>

\* _on_batch: self._db.mark_batch_processed(post_ids), then the return; on a
\* closed connection the UPDATE raises
OnBatchMark(t) ==
  /\ ob[t].pos = "mark"
  /\ IF dbOpen
     THEN /\ processed' = [p \in PostIds |->
                             IF /\ MarksBatch(ob[t].out)
                                /\ p \in Range(ob[t].batch)
                                /\ processed[p] # None
                             THEN 1 ELSE processed[p]]
          /\ lastDone' = [batch |-> ob[t].batch, out |-> ob[t].out,
                          exit |-> "returned"]
     ELSE /\ lastDone' = [batch |-> ob[t].batch, out |-> ob[t].out,
                          exit |-> "raised"]
          /\ UNCHANGED processed
  /\ ob' = [ob EXCEPT ![t] = NoBatchCall]
  /\ UNCHANGED <<created_at, dbOpen, pbuf, brun, ppc, stopAt, replay, worker,
                 posts_received, batches_processed, batches_failed,
                 topics_extracted, extracted, stopLog, stopFailed, replayed,
                 atStart, saveFailed, offered, crashes, deliveries>>
  /\ UNCHANGED <<pipeFrame, topics>>

\* _on_signal sets the stop event; start() goes on to call stop()
SignalStop ==
  /\ ppc = "running"
  /\ ppc' = "stopping"
  /\ stopAt' = 1
  /\ UNCHANGED <<created_at, processed, dbOpen, pbuf, brun, replay, worker,
                 ob, posts_received, batches_processed, batches_failed,
                 topics_extracted, extracted, lastDone, stopLog, stopFailed,
                 replayed, atStart, saveFailed, offered, crashes, deliveries>>
  /\ UNCHANGED <<pipeFrame, topics>>

\* one step of stop().  The buffer's stop flushes on the main thread, so the
\* next step waits for that _on_batch.  cleanup_old_posts finds no row older
\* than its 48 hours of retention: the rows are those of this behaviour.
PipelineStopStep(fails) ==
  /\ ppc = "stopping"
  /\ ob["main"].pos = "idle"
  /\ LET name == StopOrder[stopAt]
         next == IF fails THEN AfterFailure(stopAt) ELSE stopAt + 1
     IN /\ fails => name \in Fallible /\ stopFailed = ""
        /\ stopLog' = Append(stopLog, name)
        /\ stopFailed' = IF fails THEN name ELSE stopFailed
        /\ IF next > Len(StopOrder)
           THEN ppc' = "stopped" /\ stopAt' = 0
           ELSE ppc' = ppc /\ stopAt' = next
        /\ worker' = IF name = "datasources" /\ ~fails THEN "off" ELSE worker
        /\ brun' = IF name = "buffer" THEN FALSE ELSE brun
        /\ IF name = "buffer" /\ pbuf # <<>>
           THEN /\ ob' = [ob EXCEPT !["main"] = BatchCall(pbuf)]
                /\ pbuf' = <<>>
           ELSE UNCHANGED <<ob, pbuf>>
        /\ dbOpen' = IF name = "close" /\ ~fails THEN FALSE ELSE dbOpen
  /\ UNCHANGED <<created_at, processed, replay, posts_received,
                 batches_processed, batches_failed, topics_extracted,
                 extracted, lastDone, replayed, atStart, saveFailed, offered,
                 crashes, deliveries>>
  /\ UNCHANGED <<pipeFrame, topics>>

\* the process dies and is started again: the post log survives, everything
\* in memory is as after build_pipeline()
Crash ==
  /\ ppc \in {"recover", "replay", "running", "stopping"}
  /\ crashes < MaxCrashes
  /\ crashes' = crashes + 1
  /\ dbOpen' = TRUE
  /\ pbuf' = <<>>
  /\ brun' = FALSE
  /\ ppc' = "init"
  /\ stopAt' = 0
  /\ replay' = <<>>
  /\ worker' = "off"
  /\ ob' = [t \in PThreads |-> NoBatchCall]
  /\ posts_received' = 0
  /\ batches_processed' = 0
  /\ batches_failed' = 0
  /\ topics_extracted' = 0
  /\ stopLog' = <<>>
  /\ stopFailed' = ""
  /\ replayed' = <<>>
  /\ atStart' = {}
  /\ topics' = <<>>
  /\ UNCHANGED <<created_at, processed, extracted, lastDone, saveFailed,
                 offered, deliveries>>
  /\ UNCHANGED pipeFrame

PipeNext ==
  \/ PipelineStart
  \/ Recover
  \/ ReplayPost
  \/ StartDatasources
  \/ \E p \in PostIds, fails \in BOOLEAN : OnPost(p, fails)
  \/ TimerFlush
  \/ \E t \in PThreads, o \in {"topics", "no_topics"} : OnBatchExtract(t, o)
  \/ \E t \in PThreads, fails \in BOOLEAN : OnBatchSnapshot(t, fails)
  \/ \E t \in PThreads : OnBatchMark(t)
  \/ SignalStop
  \/ \E fails \in BOOLEAN : PipelineStopStep(fails)
  \/ Crash

PipeSpec == PipeInit /\ [][PipeNext]_vars

(***************************************************************************)
(* A polling datasource: start, stop and the worker's _poll_loop           *)
(***************************************************************************)
PollInit ==
  /\ PollIdle
  /\ SrcIdle
  /\ BufStart
  /\ StoreStart
  /\ ExtIdle
  /\ PipeIdle

pollFrame == <<bufVars, storeVars, extVars, pipeVars, srcVars>>

\* the worker that threading.Thread(...) creates next
NextWorker == CHOOSE w \in WorkerIds :
                 wpc[w] = "unborn" /\ \A v \in WorkerIds : wpc[v] = "unborn" => w <= v

\* start(): clears the stop event, creates the thread and starts it
PollStart ==
  /\ dpc = "idle"
  /\ \E w \in WorkerIds : wpc[w] = "unborn"
  /\ stop_event' = FALSE
  /\ thread' = NextWorker
  /\ wpc' = [wpc EXCEPT ![NextWorker] = "check"]
  /\ startCalls' = startCalls + 1
  /\ stopReturned' = FALSE
  /\ UNCHANGED <<dpc, stopCalls, callbacks, late>>
  /\ UNCHANGED pollFrame

\* stop() up to the join: sets the stop event; without a thread it returns
PollStop ==
  /\ dpc = "idle"
  /\ stopCalls < MaxStopCalls
  /\ stopCalls' = stopCalls + 1
  /\ stop_event' = TRUE
  /\ IF thread # None
     THEN dpc' = "join" /\ UNCHANGED stopReturned
     ELSE stopReturned' = TRUE /\ UNCHANGED dpc
  /\ UNCHANGED <<thread, wpc, startCalls, callbacks, late>>
  /\ UNCHANGED pollFrame

\* stop(): self._thread.join(timeout=10) returns, because the thread has
\* exited or because the 10 seconds have passed; then self._thread = None
PollJoinReturn ==
  /\ dpc = "join"
  /\ ~Alive(thread) \/ wpc[thread] \in Blocking
  /\ thread' = None
  /\ dpc' = "idle"
  /\ stopReturned' = TRUE
  /\ UNCHANGED <<stop_event, wpc, startCalls, stopCalls, callbacks, late>>
  /\ UNCHANGED pollFrame

\* _poll_loop: "while not self._stop_event.is_set()"
WorkerCheck(w) ==
  /\ wpc[w] = "check"
  /\ wpc' = [wpc EXCEPT ![w] = IF stop_event THEN "exited" ELSE "poll"]
  /\ UNCHANGED <<stop_event, thread, dpc, startCalls, stopCalls, stopReturned,
                 callbacks, late>>
  /\ UNCHANGED pollFrame

\* _poll_once returns from the network: it invokes on_post for a status, or
\* the loop invokes on_error for a RequestException, or there is nothing new
WorkerPoll(w, o) ==
  /\ wpc[w] = "poll"
  /\ IF o = "nothing"
     THEN /\ wpc' = [wpc EXCEPT ![w] = "wait"]
          /\ UNCHANGED <<callbacks, late>>
     ELSE IF o = "raises"
     THEN /\ wpc' = [wpc EXCEPT ![w] = IF Caught(o) THEN "on_error" ELSE "dead"]
          /\ callbacks' = IF Caught(o) THEN callbacks + 1 ELSE callbacks
          /\ late' = IF Caught(o) /\ stopReturned THEN late + 1 ELSE late
     ELSE /\ callbacks < MaxCallbacks
          /\ wpc' = [wpc EXCEPT ![w] = IF o = "post" THEN "on_post" ELSE "on_error"]
          /\ callbacks' = callbacks + 1
          /\ late' = IF stopReturned THEN late + 1 ELSE late
  /\ UNCHANGED <<stop_event, thread, dpc, startCalls, stopCalls, stopReturned>>
  /\ UNCHANGED pollFrame

\* the callback returns to the loop
WorkerCallbackReturn(w) ==
  /\ wpc[w] \in {"on_post", "on_error"}
  /\ wpc' = [wpc EXCEPT ![w] = "wait"]
  /\ UNCHANGED <<stop_event, thread, dpc, startCalls, stopCalls, stopReturned,
                 callbacks, late>>
  /\ UNCHANGED pollFrame

\* on_post raises (IngestionPipeline._on_post lets an error of save_post
\* through): the exception leaves _poll_once inside the try of the loop
WorkerCallbackRaises(w) ==
  /\ wpc[w] = "on_post"
  /\ wpc' = [wpc EXCEPT ![w] = IF Caught("raises") THEN "on_error" ELSE "dead"]
  /\ callbacks' = IF Caught("raises") THEN callbacks + 1 ELSE callbacks
  /\ late' = IF Caught("raises") /\ stopReturned THEN late + 1 ELSE late
  /\ UNCHANGED <<stop_event, thread, dpc, startCalls, stopCalls, stopReturned>>
  /\ UNCHANGED pollFrame

\* self._stop_event.wait(timeout=self._poll_interval) returns
WorkerWait(w) ==
  /\ wpc[w] = "wait"
  /\ wpc' = [wpc EXCEPT ![w] = "check"]
  /\ UNCHANGED <<stop_event, thread, dpc, startCalls, stopCalls, stopReturned,
                 callbacks, late>>
  /\ UNCHANGED pollFrame

PollNext ==
  \/ PollStart
  \/ PollStop
  \/ PollJoinReturn
  \/ \E w \in WorkerIds : WorkerCheck(w)
  \/ \E w \in WorkerIds, o \in PollOutcomes : WorkerPoll(w, o)
  \/ \E w \in WorkerIds : WorkerCallbackReturn(w)
  \/ \E w \in WorkerIds : WorkerCallbackRaises(w)
  \/ \E w \in WorkerIds : WorkerWait(w)

PollSpec == PollInit /\ [][PollNext]_vars

(***************************************************************************)
(* Properties of the PostBuffer                                            *)
(***************************************************************************)
RECURSIVE Concat(_)
\* the posts of a sequence of batches, one after the other
Concat(bs) == IF bs = <<>> THEN <<>> ELSE Head(bs).posts \o Concat(Tail(bs))

\* batches swapped out of the buffer whose on_batch call has not happened yet
PendingBatches ==
  {PostBatch(loc[t].taken, loc[t].tws, loc[t].now) :
     t \in {u \in Threads : pc[u] = "flush_emit"}}

\* the buffer is stopped and no thread is inside one of its methods
Quiescent == ~running /\ \A t \in Threads : pc[t] \in {"idle", "free"}

\* the batches that contain post p, as indices into a sequence of batches
BatchesWith(bs, p) == {i \in 1..Len(bs) : p \in Range(bs[i].posts)}

\* C1: for any two batches emitted consecutively, the earlier batch's
\* window_end is <= the later batch's window_start, under every interleaving
\* of timer flushes, cap-triggered flushes and the flush of stop().
C1_ConsecutiveWindowsOrdered ==
  \A i \in 1..(Len(emitted) - 1) :
     emitted[i].window_end <= emitted[i + 1].window_start

\* C2: every emitted batch has window_start <= window_end, also when two
\* flushes run concurrently and each reads its 'now' before taking the lock.
C2_WindowStartBeforeEnd ==
  \A i \in 1..Len(emitted) : emitted[i].window_start <= emitted[i].window_end

\* C3: the batches contain exactly the posts passed to add_post while the
\* buffer was running: the batches in the order they were cut, followed by
\* the in-flight posts, are the accepted posts in add_post order; every cut
\* batch is handed to on_batch once; a post offered while the buffer was not
\* running is nowhere; once all flushes have completed every accepted post is
\* in exactly one emitted batch.
C3_PostsConserved ==
  /\ Concat(cuts) \o posts = accepted
  /\ Range(emitted) \cup PendingBatches = Range(cuts)
  /\ Len(emitted) + Cardinality({t \in Threads : pc[t] = "flush_emit"}) = Len(cuts)
  /\ \A p \in dropped :
       /\ p \notin Range(posts)
       /\ p \notin Range(accepted)
       /\ BatchesWith(cuts, p) = {}
  /\ Quiescent =>
       /\ posts = <<>>
       /\ \A p \in 1..(nextPost - 1) :
            Cardinality(BatchesWith(emitted, p)) = IF p \in dropped THEN 0 ELSE 1

C3_Witness ==
  /\ Quiescent
  /\ Len(emitted) >= 1
  /\ dropped # {}
  /\ \E i \in 1..Len(emitted) : Len(emitted[i].posts) >= 2

\* C4 as claimed: when a cap-reaching add_post call has returned, on_batch
\* has been invoked with the post it added.
C4_EmittedBeforeReturn ==
  \A r \in capDone : BatchesWith(emitted, r.post) # {}

\* C4 (amended): when a cap-reaching add_post call has returned, the post it
\* added is no longer in flight: it has been cut into a batch, and when the
\* flush of this very call cut it, on_batch has been invoked with it.
C4_EarlyFlushSynchronous ==
  \A r \in capDone :
     /\ r.post \notin Range(posts)
     /\ BatchesWith(cuts, r.post) # {}
     /\ r.own => BatchesWith(emitted, r.post) # {}

\* spec scenario S3: p1, p2 emitted from the second add_post, p3 from stop()
C4_Witness ==
  /\ Quiescent
  /\ [post |-> 2, own |-> TRUE] \in capDone
  /\ Len(emitted) = 2
  /\ emitted[1].posts = <<1, 2>>
  /\ emitted[2].posts = <<3>>

\* C5: on_batch is never invoked with an empty batch: every batch cut or
\* emitted has post_count = len(posts) >= 1, and a flush that finds no
\* in-flight posts cuts no batch and invokes no callback.
C5_NoEmptyBatch ==
  /\ \A i \in 1..Len(emitted) :
       emitted[i].post_count = Len(emitted[i].posts) /\ emitted[i].post_count >= 1
  /\ \A i \in 1..Len(cuts) : cuts[i].posts # <<>>
  /\ \A b \in PendingBatches : b.posts # <<>>
  /\ Len(emitted) <= Len(cuts)

C5_Witness == skipped /\ Len(emitted) >= 1 /\ Quiescent

\* C6: an exception raised by on_batch is caught inside the buffer: it
\* reaches no caller of add_post or stop and kills no timer thread; while the
\* buffer runs a timer is pending or a timer thread is about to schedule the
\* next one; posts accepted are still emitted once the flushes have completed.
C6_CallbackErrorContained ==
  /\ escaped = {}
  /\ (running /\ pc[Ctl] = "idle") => \E k \in TimerIds : pc[k] # "free"
  /\ (failedAt > 0 /\ Quiescent) =>
        \A p \in Range(accepted) : BatchesWith(emitted, p) # {}

C6_Witness ==
  /\ failedAt > 0
  /\ Len(emitted) > failedAt
  /\ running
  /\ \E k \in TimerIds : pc[k] = "pending"

(***************************************************************************)
(* Properties of the TopicStore                                            *)
(***************************************************************************)
\* no merge cycle is in progress
StoreAtRest == slock = None

\* C7: after any merge cycle the number of topics in the store is at most
\* max_active.
C7_CapRespected == StoreAtRest => Len(topics) <= max_active

C7_Witness == StoreAtRest /\ evicted > 0 /\ Len(topics) = max_active

C9_FirstSeenBeforeLastSeen ==
  \A i \in 1..Len(topics) : topics[i].first_seen <= topics[i].last_seen

\* C10: a row whose normalized name is the key of an existing topic creates
\* no entry: it sets score to the row's score, last_seen to now,
\* batches_since_seen to 0 and state to Growing, and leaves name, first_seen,
\* source and every other topic unchanged; the keys of the store are distinct
\* and each is the normalized display name.
C10_MatchUpdatesInPlace ==
  [][\A t \in MergerIds :
       (mpc[t] = "rows" /\ mloc'[t].nrows = mloc[t].nrows + 1) =>
         /\ \A i \in 1..Len(topics) :
              topics[i].normalized_name = normalize_topic_name(last'.topic) =>
                /\ Len(topics') = Len(topics)
                /\ \A j \in (1..Len(topics)) \ {i} : topics'[j] = topics[j]
                /\ topics'[i].score = last'.score
                /\ topics'[i].last_seen = mloc[t].now
                /\ topics'[i].batches_since_seen = 0
                /\ topics'[i].state = "growing"
                /\ topics'[i].name = topics[i].name
                /\ topics'[i].normalized_name = topics[i].normalized_name
                /\ topics'[i].first_seen = topics[i].first_seen
                /\ topics'[i].source = topics[i].source
         /\ \A i, j \in 1..Len(topics') :
              topics'[i].normalized_name = topics'[j].normalized_name => i = j
         /\ \A i \in 1..Len(topics') :
              topics'[i].normalized_name = normalize_topic_name(topics'[i].name)
    ]_vars

\* "A" was stored by a merge from one source; a later merge from the other
\* source has just applied the row " a "
C10_Witness ==
  \E t \in MergerIds :
     /\ mpc[t] = "rows"
     /\ last.topic = <<" ", "a", " ">>
     /\ \E i \in 1..Len(topics) :
          /\ topics[i].name = <<"A">>
          /\ topics[i].state = "growing"
          /\ topics[i].score = last.score
          /\ topics[i].source # mloc[t].source
          /\ topics[i].first_seen < topics[i].last_seen

(***************************************************************************)
(* Claims about TopicExtractor.extract                                     *)
(***************************************************************************)
RECURSIVE Pow2(_)
Pow2(n) == IF n = 0 THEN 1 ELSE 2 * Pow2(n - 1)

\* the first successful attempt ended the call: it is the last attempt made
FirstSuccessLast ==
  /\ outcomes # <<>>
  /\ outcomes[Len(outcomes)] \in Successes
  /\ \A i \in 1..(Len(outcomes) - 1) : outcomes[i] \in Failures

\* every attempt the loop allows was made and failed
Exhausted ==
  /\ Len(outcomes) = 1 + xcfg.max_retries
  /\ \A i \in 1..Len(outcomes) : outcomes[i] \in Failures

ExtractPolicy ==
  /\ calls <= 1 + xcfg.max_retries
  /\ calls = Len(outcomes)
  /\ Len(sleeps) <= xcfg.max_retries
  /\ \A k \in 1..Len(sleeps) :
        /\ sleeps[k] = xcfg.initial_backoff * Pow2(k - 1)
        /\ k < Len(outcomes) \/ xpc = "try"
        /\ outcomes[k] \in Failures
  /\ xpc = "try" => Len(sleeps) = IF calls <= xcfg.max_retries THEN calls
                                   ELSE xcfg.max_retries
  /\ xpc = "done" =>
        \/ calls = 0 /\ result = <<>> /\ sleeps = <<>>
        \/ /\ FirstSuccessLast
           /\ result = Parsed(outcomes[Len(outcomes)])
           /\ Len(sleeps) = calls - 1
        \/ /\ Exhausted
           /\ result = <<>>
           /\ Len(sleeps) = xcfg.max_retries

\* C11: extract makes at most 1 + max_retries provider calls, returns the
\* parsed topics of the first successful call without calling again, sleeps
\* initial_backoff * 2^(k-1) before the k-th retry and not after the last
\* failed attempt, returns [] after exhaustion, and always terminates.
C11_BoundedRetriesThenEmpty == [](ExtractPolicy) /\ <>(xpc = "done")

C11_Witness ==
  /\ xpc = "done"
  /\ xcfg.max_retries = 2
  /\ Exhausted
  /\ "malformed" \in Range(outcomes)
  /\ sleeps = <<xcfg.initial_backoff, 2 * xcfg.initial_backoff>>
  /\ result = <<>>

(***************************************************************************)
(* Claims about the IngestionPipeline                                      *)
(***************************************************************************)
\* thread t leaves the extraction and health/merge part of _on_batch
Extracts(t) == ob[t].pos = "extract" /\ ob'[t].pos = "snapshot"

\* thread t returns from _on_batch after mark_batch_processed
Returns(t) ==
  /\ ob[t].pos = "mark"
  /\ ob'[t].pos = "idle"
  /\ crashes' = crashes
  /\ lastDone'.exit = "returned"

\* C12: an _on_batch call whose extraction yields no topics for a non-empty
\* batch adds exactly 1 to batches_failed and leaves batches_processed,
\* topics_extracted and the topic store as they are; every _on_batch call
\* adds exactly 1 to exactly one of batches_processed and batches_failed.
C12_FailedBatchLeavesStore ==
  [][\A t \in PThreads :
       Extracts(t) =>
         /\ \/ /\ batches_processed' = batches_processed + 1
               /\ batches_failed' = batches_failed
            \/ /\ batches_processed' = batches_processed
               /\ batches_failed' = batches_failed + 1
         /\ (ob'[t].out = "no_topics" /\ ob[t].batch # <<>>) =>
               /\ batches_failed' = batches_failed + 1
               /\ batches_processed' = batches_processed
               /\ topics_extracted' = topics_extracted
               /\ topics' = topics]_vars

C12_Witness ==
  \E t \in PThreads :
     /\ ob[t].pos = "snapshot"
     /\ ob[t].out = "no_topics"
     /\ ob[t].batch # <<>>
     /\ batches_failed = 1
     /\ batches_processed = 1
     /\ topics_extracted = 1
     /\ Len(topics) = 1
     /\ topics[1].batches_since_seen = 0

\* C13: with a post log, every post of a batch has processed = 0 when the
\* extractor is invoked for the batch and processed = 1 when _on_batch
\* returns, also when the extractor returned nothing and the batch is dropped.
C13_UnprocessedInProcessedOut ==
  [][\A t \in PThreads :
       /\ Extracts(t) => \A p \in Range(ob[t].batch) : processed[p] = 0
       /\ Returns(t) => \A p \in Range(ob[t].batch) : processed'[p] = 1]_vars

C13_Witness ==
  /\ lastDone.exit = "returned"
  /\ lastDone.out = "no_topics"
  /\ Len(lastDone.batch) = 2
  /\ \A p \in Range(lastDone.batch) : processed[p] = 1
  /\ batches_failed = 1

\* C14: no post id is in more than one of the batches passed to the
\* extractor, whatever the deliveries (re-deliveries included), crashes
\* during batch processing and restarts replaying the post log.
C14_AtMostOnceToExtractor ==
  \A i, j \in 1..Len(extracted) :
     i # j => Range(extracted[i]) \cap Range(extracted[j]) = {}

\* C15: a post whose save_post raised inside _on_post has been passed to
\* buffer.add_post all the same, and the datasource's worker is alive.
C15_SaveErrorContained ==
  /\ saveFailed \subseteq offered
  /\ saveFailed # {} => worker # "dead"

\* C16: on start every post unprocessed in the log is added to the buffer,
\* in the order of the created_at instants, while the buffer is running and
\* the datasource is not yet started.
C16_ReplayInCreatedOrder ==
  /\ ppc \in {"recover", "replay"} => brun /\ worker = "off"
  /\ Range(replayed) \subseteq atStart
  /\ ppc \in {"running", "stopping", "stopped"} => atStart \subseteq Range(replayed)
  /\ \A i, j \in 1..Len(replayed) :
        i < j => created_at[replayed[i]].utc <= created_at[replayed[j]].utc

\* step a of stop() ran before step b, if both ran
StopBefore(a, b) ==
  \A i, j \in 1..Len(stopLog) : stopLog[i] = a /\ stopLog[j] = b => i < j

\* C17: stop() stops every datasource before the buffer; the buffer stop,
\* with its final flush through _on_batch, is complete before the health
\* timer is cancelled and the final snapshot is saved; the final snapshot
\* precedes cleanup_old_posts and the closing of the post log.
C17_StopOrdered ==
  /\ StopBefore("datasources", "buffer")
  /\ StopBefore("buffer", "health_timer")
  /\ StopBefore("buffer", "snapshot")
  /\ StopBefore("snapshot", "cleanup")
  /\ StopBefore("snapshot", "close")
  /\ "buffer" \in Range(stopLog) => "datasources" \in Range(stopLog)
  /\ "snapshot" \in Range(stopLog) =>
        /\ {"buffer", "health_timer"} \subseteq Range(stopLog)
        /\ ~brun /\ pbuf = <<>> /\ ob["main"].pos = "idle"
  /\ "close" \in Range(stopLog) => "snapshot" \in Range(stopLog)

C17_Witness ==
  /\ ppc = "stopped"
  /\ stopLog = StopOrder
  /\ ~dbOpen
  /\ stopFailed = ""
  /\ lastDone.exit = "returned"

\* C18: whichever single step of stop() fails, every other step of stop()
\* is run and stop() returns.
C18_StopRunsEveryStep ==
  ppc = "stopped" => Range(StopOrder) \subseteq Range(stopLog)

(***************************************************************************)
(* Claims about the polling datasources                                    *)
(***************************************************************************)
\* C19: once stop() of a polling datasource has returned, its worker has
\* exited and neither on_post nor on_error is invoked any more, also when the
\* worker was in a network call or in a slow callback when stop() was called.
C19_StoppedMeansSilent ==
  stopReturned =>
    /\ \A w \in WorkerIds : ~Alive(w)
    /\ late = 0

\* C20: start() on a datasource that is started and stop() on one that is
\* stopped change nothing: no further worker thread, no change of the
\* thread handle or of the stop event.
C20_StartStopIdempotent ==
  [][/\ (startCalls' = startCalls + 1 /\ thread # None) =>
          UNCHANGED <<wpc, thread, stop_event>>
     /\ (stopCalls' = stopCalls + 1 /\ thread = None /\ stop_event) =>
          UNCHANGED <<wpc, thread, stop_event, dpc>>]_vars

\* C21: whatever goes wrong in a poll cycle of the REST-poll worker, the
\* worker goes on with the next cycle: it leaves _poll_loop only by reading
\* the stop event that stop() has set, never by an exception.
C21_WorkerSurvivesErrors ==
  \A w \in WorkerIds : wpc[w] # "dead"

(***************************************************************************)
(* CurSpec: poll cycles of one MastodonPollingDatasource                   *)
(***************************************************************************)
oldVars == <<bufVars, storeVars, extVars, pipeVars, pollVars>>

curFrame == <<oldVars, rssVars, redVars, dbVars, viewVars, lockVars>>

\* __init__: _since_id = initial_since_id
CurInit ==
  /\ BufStart
  /\ StoreStart
  /\ ExtIdle
  /\ PipeIdle
  /\ PollIdle
  /\ RssIdle
  /\ RedIdle
  /\ DbIdle
  /\ ViewIdle
  /\ LockIdle
  /\ seed \in {None, 1}
  /\ since_id = seed
  /\ hist = <<>>

\* a poll that ends before the loop: requests.get or raise_for_status raises,
\* or the body is not a list
PollFails(why) ==
  /\ Len(hist) < MaxPolls
  /\ hist' = Append(hist, [params |-> Params(since_id), statuses |-> <<>>,
                           out |-> why, got |-> <<>>])
  /\ UNCHANGED <<since_id, seed>>
  /\ UNCHANGED curFrame

\* a poll answered with a list; raisesAt = k > 0: on_post raises for the k-th
\* status of reversed(statuses), and the exception leaves _poll_once
PollOnce(statuses, raisesAt) ==
  /\ Len(hist) < MaxPolls
  /\ raisesAt > 0 => Reversed(statuses)[raisesAt].kind = "ok"
  /\ LET rev == Reversed(statuses)
         n == IF raisesAt > 0 THEN raisesAt ELSE Len(statuses)
     IN hist' = Append(hist, [params |-> Params(since_id),
                              statuses |-> statuses,
                              out |-> IF raisesAt > 0 THEN "raised"
                                      ELSE IF statuses = <<>> THEN "empty"
                                      ELSE "ok",
                              got |-> Emitted(rev, n)])
  /\ since_id' = IF raisesAt = 0 /\ statuses # <<>> THEN Cursor(statuses)
                 ELSE since_id
  /\ UNCHANGED seed
  /\ UNCHANGED curFrame

CurNext ==
  \/ \E why \in {"transport", "http", "not_list"} : PollFails(why)
  \/ \E statuses \in Responses : \E raisesAt \in 0..Len(statuses) :
       PollOnce(statuses, raisesAt)

CurSpec == CurInit /\ [][CurNext]_vars

\* the since_id a request carried, None when it carried none
SentSince(h) == IF "since_id" \in DOMAIN h.params THEN h.params.since_id ELSE None

\* the cursor after the k-th poll: what the next request carries
SinceAfter(k) == IF k < Len(hist) THEN SentSince(hist[k + 1]) ELSE since_id

\* the ids of the statuses that pass validation and filter
OkIds(statuses) == {statuses[i].id : i \in {j \in 1..Len(statuses) : statuses[j].kind = "ok"}}

\* strictly ascending ids: oldest first
OldestFirst(ids) == \A i \in 1..Len(ids), j \in 1..Len(ids) : i < j => ids[i] < ids[j]

\* C22: the first request carries the seed (no since_id when unseeded); the
\* statuses of a response reach on_post oldest-first; after a response with
\* at least one status the next request carries the id of its newest status;
\* a failed or empty poll leaves the cursor alone; and the cursor does not
\* move backwards over a poll whose response held only ids newer than the
\* since_id sent.
C22_CursorFollowsNewest ==
  /\ hist # <<>> => SentSince(hist[1]) = seed
  /\ \A k \in 1..Len(hist) :
       LET h == hist[k] IN
       /\ OldestFirst(h.got)
       /\ h.out = "ok" =>
            /\ {h.got[i] : i \in 1..Len(h.got)} = OkIds(h.statuses)
            /\ Len(h.got) = Cardinality(OkIds(h.statuses))
            /\ SinceAfter(k) = h.statuses[1].id
       /\ h.out # "ok" => SinceAfter(k) = SentSince(h)
       /\ (\A i \in 1..Len(h.statuses) : h.statuses[i].id > SentSince(h))
            => SinceAfter(k) >= SentSince(h)

\* two polls answered with statuses, the second one after the cursor moved
C22_Witness ==
  /\ Len(hist) >= 2
  /\ hist[1].out = "ok"
  /\ hist[2].out = "ok"
  /\ Len(hist[2].statuses) = 2
  /\ Len(hist[2].got) = 2
  /\ SentSince(hist[2]) = hist[1].statuses[1].id
  /\ since_id = hist[2].statuses[1].id
  /\ since_id > SentSince(hist[2])

(***************************************************************************)
(* RssSpec: poll cycles of one RssDatasource over its feeds                *)
(***************************************************************************)
RssInit ==
  /\ BufStart
  /\ StoreStart
  /\ ExtIdle
  /\ PipeIdle
  /\ PollIdle
  /\ CurIdle
  /\ RssIdle
  /\ RedIdle
  /\ DbIdle
  /\ ViewIdle
  /\ LockIdle

rssFrame == <<oldVars, curVars, redVars, dbVars, viewVars, lockVars>>

\* what the datasource holds for the feed when the cycle starts
RssBefore(feed) ==
  [ids |-> seen_ids[feed], etag |-> etags[feed], lm |-> last_modified[feed]]

\* a cycle answered with 200; raisesAt = k > 0: on_post raises for the k-th
\* entry of new_entries, and the exception leaves _poll_feed
RssPollFeed(feed, entries, hdr, raisesAt) ==
  LET previous_ids == seen_ids[feed]
      new == NewEntries(entries, previous_ids, Len(entries))
      n == IF raisesAt > 0 THEN raisesAt ELSE Len(new)
  IN /\ cycles < MaxCycles
     /\ cycles' = cycles + 1
     /\ raisesAt <= Len(new)
     /\ raisesAt > 0 => _entry_to_post(entries[new[raisesAt]], feed) # NoPost
     /\ etags' = IF hdr.etag # NoHeader THEN [etags EXCEPT ![feed] = hdr.etag] ELSE etags
     /\ last_modified' = IF hdr.lm # NoHeader
                         THEN [last_modified EXCEPT ![feed] = hdr.lm]
                         ELSE last_modified
     /\ seen_ids' = [seen_ids EXCEPT ![feed] = CurrentIds(entries)]
     /\ cycle' = [feed |-> feed, status |-> 200, sent |-> RssHeaders(feed),
                  entries |-> entries, hdr |-> hdr,
                  got |-> RssEmitted(entries, new, feed, n), raised |-> raisesAt > 0,
                  before |-> RssBefore(feed)]
     /\ UNCHANGED rssFrame

\* a cycle answered with 304 Not Modified
RssNotModified(feed) ==
  /\ cycles < MaxCycles
  /\ cycles' = cycles + 1
  /\ cycle' = [NoCycle EXCEPT !.feed = feed, !.status = 304,
                              !.sent = RssHeaders(feed),
                              !.before = RssBefore(feed)]
  /\ UNCHANGED <<seen_ids, etags, last_modified>>
  /\ UNCHANGED rssFrame

\* requests.get or raise_for_status raises
RssFails(feed) ==
  /\ cycles < MaxCycles
  /\ cycles' = cycles + 1
  /\ cycle' = [NoCycle EXCEPT !.feed = feed, !.status = 500,
                              !.sent = RssHeaders(feed),
                              !.raised = TRUE, !.before = RssBefore(feed)]
  /\ UNCHANGED <<seen_ids, etags, last_modified>>
  /\ UNCHANGED rssFrame

RssNext ==
  \/ \E feed \in FeedNames, entries \in Feeds, hdr \in RespHeaders,
          raisesAt \in 0..MaxEntries : RssPollFeed(feed, entries, hdr, raisesAt)
  \/ \E feed \in FeedNames : RssNotModified(feed)
  \/ \E feed \in FeedNames : RssFails(feed)

RssSpec == RssInit /\ [][RssNext]_vars

\* how often the i-th entry of the last cycle was passed to on_post
TimesEmitted(i) == Cardinality({k \in 1..Len(cycle.got) : cycle.got[k] = i})

\* C23: in a cycle answered with 200 an entry whose id was in the feed's id
\* set is not emitted, an entry with a new id and text is emitted exactly
\* once, and the set becomes the cycle's ids; a 304 cycle emits nothing and
\* leaves id set, ETag and Last-Modified; the request sends the stored ETag
\* as If-None-Match.
C23_RssDedupPerFeed ==
  /\ cycle.status = 200 =>
       /\ \A i \in 1..Len(cycle.entries) :
            LET e == cycle.entries[i] IN
            /\ _get_entry_id(e) \in cycle.before.ids => TimesEmitted(i) = 0
            /\ _get_entry_id(e) \notin cycle.before.ids /\ e.text => TimesEmitted(i) = 1
       /\ seen_ids[cycle.feed] = {_get_entry_id(cycle.entries[i]) : i \in 1..Len(cycle.entries)}
       /\ cycle.hdr.etag # NoHeader => RssHeaders(cycle.feed).inm = cycle.hdr.etag
  /\ cycle.status = 304 =>
       /\ cycle.got = <<>>
       /\ RssBefore(cycle.feed) = cycle.before
  /\ cycle.status # 0 => cycle.sent.inm = cycle.before.etag

\* C24: an entry that has neither id nor link is never passed to on_post.
C24_EmptyIdSkipped ==
  \A k \in 1..Len(cycle.got) : _get_entry_id(cycle.entries[cycle.got[k]]) # ""

(***************************************************************************)
(* RedSpec: polls of one RedditDatasource over both streams                *)
(***************************************************************************)
RedInit ==
  /\ BufStart
  /\ StoreStart
  /\ ExtIdle
  /\ PipeIdle
  /\ PollIdle
  /\ CurIdle
  /\ RssIdle
  /\ RedIdle
  /\ DbIdle
  /\ ViewIdle
  /\ LockIdle

redFrame == <<oldVars, curVars, rssVars, dbVars, viewVars, lockVars>>

\* one _poll_submissions or _poll_comments. Since the previous poll of the
\* stream the items up to newMax were created and the items of dead were
\* deleted; invalid are the items validate_submission / validate_comment
\* turns down.
RedPoll(stream, newMax, dead, invalid) ==
  /\ redPolls < MaxRedPolls
  /\ newMax >= redMax[stream]
  /\ LET live == (redLive[stream] \cup ((redMax[stream] + 1)..newMax)) \ dead
         listing == Listing(live)
         new == BeforeMarker(listing, newest[stream], 1)
         got == RedEmitted(Reversed(new), invalid, Len(new))
     IN /\ dead \subseteq redLive[stream] \cup ((redMax[stream] + 1)..newMax)
        /\ invalid \subseteq {listing[i] : i \in 1..Len(listing)}
        /\ redLive' = [redLive EXCEPT ![stream] = live]
        /\ redMax' = [redMax EXCEPT ![stream] = newMax]
        /\ newest' = IF listing # <<>> THEN [newest EXCEPT ![stream] = listing[1]]
                     ELSE newest
        /\ redCount' = [redCount EXCEPT ![stream] =
                          [i \in Fullnames |->
                             IF \E k \in 1..Len(got) : got[k] = i
                             THEN redCount[stream][i] + 1
                             ELSE redCount[stream][i]]]
        /\ redLast' = [stream |-> stream, listing |-> listing, got |-> got]
  /\ redPolls' = redPolls + 1
  /\ UNCHANGED redFrame

RedNext ==
  \E stream \in Streams, newMax \in 0..MaxFullname, dead \in SUBSET Fullnames,
     invalid \in SUBSET Fullnames : RedPoll(stream, newMax, dead, invalid)

RedSpec == RedInit /\ [][RedNext]_vars

\* C25: no item is passed to on_post in two polls of its stream, whatever the
\* listing holds, and the items of one poll are passed oldest-first.
C25_RedditNeverReEmits ==
  /\ \A s \in Streams, i \in Fullnames : redCount[s][i] <= 1
  /\ OldestFirst(redLast.got)

(***************************************************************************)
(* DbSpec: threads calling save_post, mark_batch_processed and             *)
(* cleanup_old_posts on one PostDatabase                                   *)
(***************************************************************************)
DbInit ==
  /\ BufStart
  /\ StoreStart
  /\ ExtIdle
  /\ PipeIdle
  /\ PollIdle
  /\ CurIdle
  /\ RssIdle
  /\ RedIdle
  /\ DbIdle
  /\ ViewIdle
  /\ LockIdle

dbFrame == <<oldVars, curVars, rssVars, redVars, viewVars, lockVars>>

\* save_post up to the lock: row = post_to_row(post)
SaveCall(t, id, text) ==
  /\ dbpc[t].op = "idle"
  /\ dcalls < MaxDbCalls
  /\ dcalls' = dcalls + 1
  /\ \E now \in dclock..MaxDbTime :
       /\ dclock' = now
       /\ dbpc' = [dbpc EXCEPT ![t] = [DbIdleCall EXCEPT !.op = "save", !.id = id,
                                        !.row = post_to_row(text, now)]]
  /\ UNCHANGED <<dbrows, dlock, dsaves, dtrues, ddeleted, dlast>>
  /\ UNCHANGED dbFrame

\* mark_batch_processed up to the lock; the empty list returns at once
MarkCall(t, ids) ==
  /\ dbpc[t].op = "idle"
  /\ dcalls < MaxDbCalls
  /\ dcalls' = dcalls + 1
  /\ IF ids = {}
     THEN /\ dlast' = [NoStatement EXCEPT !.op = "mark_empty", !.before = dbrows]
          /\ UNCHANGED dbpc
     ELSE /\ dbpc' = [dbpc EXCEPT ![t] = [DbIdleCall EXCEPT !.op = "mark", !.ids = ids]]
          /\ UNCHANGED dlast
  /\ UNCHANGED <<dbrows, dlock, dclock, dsaves, dtrues, ddeleted>>
  /\ UNCHANGED dbFrame

\* cleanup_old_posts up to the lock: cutoff = (now - retention).isoformat()
CleanupCall(t, retention) ==
  /\ dbpc[t].op = "idle"
  /\ dcalls < MaxDbCalls
  /\ dcalls' = dcalls + 1
  /\ \E now \in dclock..MaxDbTime :
       /\ now >= retention
       /\ dclock' = now
       /\ dbpc' = [dbpc EXCEPT ![t] = [DbIdleCall EXCEPT !.op = "cleanup",
                                        !.cutoff = IsoUtc(now - retention),
                                        !.cut = now - retention]]
  /\ UNCHANGED <<dbrows, dlock, dsaves, dtrues, ddeleted, dlast>>
  /\ UNCHANGED dbFrame

\* with self._lock: entered
DbAcquire(t) ==
  /\ dbpc[t].op \in {"save", "mark", "cleanup"}
  /\ dlock = 0
  /\ dlock' = t
  /\ UNCHANGED <<dbrows, dbpc, dclock, dsaves, dtrues, ddeleted, dlast, dcalls>>
  /\ UNCHANGED dbFrame

\* save_post under the lock: the INSERT, the commit, return rowcount == 1
SaveRun(t) ==
  /\ dlock = t
  /\ dbpc[t].op = "save"
  /\ LET id == dbpc[t].id
         res == InsertOrIgnore(dbrows, id, dbpc[t].row)
     IN /\ dbrows' = res.rows
        /\ dsaves' = [dsaves EXCEPT ![id] = @ + 1]
        /\ dtrues' = [dtrues EXCEPT ![id] = IF res.rowcount = 1 THEN @ + 1 ELSE @]
        /\ dlast' = [NoStatement EXCEPT !.op = "save", !.id = id,
                                        !.ret = (res.rowcount = 1),
                                        !.before = dbrows]
  /\ dlock' = 0
  /\ dbpc' = [dbpc EXCEPT ![t] = DbIdleCall]
  /\ UNCHANGED <<dclock, ddeleted, dcalls>>
  /\ UNCHANGED dbFrame

\* mark_batch_processed under the lock
MarkRun(t) ==
  /\ dlock = t
  /\ dbpc[t].op = "mark"
  /\ dbrows' = UpdateProcessed(dbrows, dbpc[t].ids)
  /\ dlast' = [NoStatement EXCEPT !.op = "mark", !.ids = dbpc[t].ids,
                                  !.before = dbrows]
  /\ dlock' = 0
  /\ dbpc' = [dbpc EXCEPT ![t] = DbIdleCall]
  /\ UNCHANGED <<dclock, dsaves, dtrues, ddeleted, dcalls>>
  /\ UNCHANGED dbFrame

\* cleanup_old_posts under the lock
CleanupRun(t) ==
  /\ dlock = t
  /\ dbpc[t].op = "cleanup"
  /\ LET gone == Deleted(dbrows, dbpc[t].cutoff)
     IN /\ dbrows' = [i \in DbIds |-> IF i \in gone THEN NoDbRow ELSE dbrows[i]]
        /\ ddeleted' = [i \in DbIds |-> IF i \in gone THEN ddeleted[i] + 1
                                        ELSE ddeleted[i]]
  /\ dlast' = [NoStatement EXCEPT !.op = "cleanup", !.cut = dbpc[t].cut,
                                  !.before = dbrows]
  /\ dlock' = 0
  /\ dbpc' = [dbpc EXCEPT ![t] = DbIdleCall]
  /\ UNCHANGED <<dclock, dsaves, dtrues, dcalls>>
  /\ UNCHANGED dbFrame

DbNext ==
  \/ \E t \in DbThreads, id \in DbIds, text \in DbTexts : SaveCall(t, id, text)
  \/ \E t \in DbThreads, ids \in SUBSET DbIds : MarkCall(t, ids)
  \/ \E t \in DbThreads, retention \in Retentions : CleanupCall(t, retention)
  \/ \E t \in DbThreads : DbAcquire(t)
  \/ \E t \in DbThreads : SaveRun(t)
  \/ \E t \in DbThreads : MarkRun(t)
  \/ \E t \in DbThreads : CleanupRun(t)

DbSpec == DbInit /\ [][DbNext]_vars

\* C26: as long as no row of the id was deleted, the save_post calls of one
\* id leave one row, exactly one of them returned True, and a save_post that
\* finds the id returns False and leaves the table, processed flag included,
\* as it was.
C26_SavePostIdempotent ==
  /\ \A id \in DbIds :
       ddeleted[id] = 0 /\ dsaves[id] > 0 => dbrows[id].there /\ dtrues[id] = 1
  /\ dlast.op = "save" /\ dlast.before[dlast.id].there =>
       ~dlast.ret /\ dbrows = dlast.before

\* three save_post calls of one id, the last one after the row was marked
\* processed
C26_Witness ==
  /\ \E id \in DbIds :
       /\ dsaves[id] = 3
       /\ ddeleted[id] = 0
       /\ dlast.op = "save"
       /\ dlast.id = id
       /\ dlast.before[id].processed = 1
       /\ dbrows[id].text # "t2"

\* the instant a received_at text stands for
InstantOf(text) == text[1] * 2 + text[3]

\* the rows the step removed, and the rows it changed
Removed == {i \in DbIds : dbrows[i].there /\ ~dbrows'[i].there}
Changed == {i \in DbIds : dbrows'[i] # dbrows[i]}

\* C27: no step removes an unprocessed row or takes processed from 1 to 0;
\* cleanup_old_posts removes only processed rows received before the cutoff;
\* mark_batch_processed changes only rows of the given ids, none for unknown
\* ids or the empty list, and none when repeated.
C27_UnprocessedNeverLost ==
  [][/\ \A i \in Removed : dbrows[i].processed = 1
     /\ \A i \in DbIds :
          dbrows[i].there /\ dbrows'[i].there /\ dbrows[i].processed = 1
            => dbrows'[i].processed = 1
     /\ Removed # {} =>
          /\ dlast'.op = "cleanup"
          /\ \A i \in Removed : InstantOf(dbrows[i].received_at) < dlast'.cut
     /\ dlast' # dlast /\ dlast'.op = "mark" =>
          /\ Changed \subseteq dlast'.ids
          /\ \A i \in Changed : dbrows[i].there /\ dbrows[i].processed = 0
          /\ dbrows' = UpdateProcessed(dbrows', dlast'.ids)
     /\ dlast' # dlast /\ dlast'.op = "mark_empty" => dbrows' = dbrows
    ]_vars

\* a cleanup that found an old processed row next to an unprocessed one of
\* the same age: the first is gone, the second still there
C27_Witness ==
  /\ dlast.op = "cleanup"
  /\ \E i \in DbIds, j \in DbIds :
       /\ dlast.before[i].there /\ dlast.before[i].processed = 1
       /\ ~dbrows[i].there
       /\ dlast.before[j].there /\ dlast.before[j].processed = 0
       /\ dlast.before[j].received_at = dlast.before[i].received_at
       /\ dbrows[j] = dlast.before[j]

\* the stored topic with key norm
Has(tps, norm) == IndexOf(tps, norm) # 0
TopicAt(tps, norm) == tps[IndexOf(tps, norm)]

\* the steps of merge call t: a row of the list, the loop over the unseen
\* topics, and _enforce_cap with the release of the lock
RowStep(t) == mpc[t] = "rows" /\ mpc'[t] = "rows" /\ mloc'[t].nrows = mloc[t].nrows + 1
UnseenStep(t) == mpc[t] = "rows" /\ mpc'[t] = "cap"
CapStep(t) == mpc[t] = "cap" /\ mpc'[t] = "idle"

\* an unseen topic is Shrinking in this merge: it was, or it becomes so now
ShrinksNow(x) ==
  \/ x.state = "shrinking"
  \/ x.state \in {"entering", "growing"} /\ x.batches_since_seen + 1 >= stale_after

\* base^n
RECURSIVE PowOf(_, _)
PowOf(base, n) == IF n = 0 THEN 1 ELSE base * PowOf(base, n - 1)

\* score0 * decay_factor^n
Decayed(score0, n) == (score0 * PowOf(DecayNum, n)) \div PowOf(DecayDen, n)

\* the merges in Shrinking state since the topic was last seen
ShrinkingMerges(x) ==
  IF x.batches_since_seen >= stale_after
  THEN x.batches_since_seen - stale_after + 1 ELSE 0

\* C28: after every merge a stored topic is Shrinking exactly when its
\* batches_since_seen has reached stale_after; the counter of an unseen topic
\* grows by 1 in the merge and by nothing else, an Entering or Growing topic
\* turns Shrinking in the merge where the counter reaches stale_after, and a
\* matched topic has counter 0 and is not Shrinking.
C28_ShrinkingIffStale ==
  /\ [](StoreAtRest =>
          \A i \in 1..Len(topics) :
            topics[i].state = "shrinking"
              <=> topics[i].batches_since_seen >= stale_after)
  /\ [][\A t \in MergerIds :
          /\ RowStep(t) =>
               LET norm == normalize_topic_name(last'.topic) IN
               /\ \A i \in 1..Len(topics) :
                    topics[i].normalized_name # norm => topics'[i] = topics[i]
               /\ norm # <<>> =>
                    /\ TopicAt(topics', norm).batches_since_seen = 0
                    /\ TopicAt(topics', norm).state # "shrinking"
          /\ UnseenStep(t) =>
               \A i \in 1..Len(topics) :
                 LET x == topics[i]
                     norm == x.normalized_name
                 IN IF norm \in mloc[t].seen
                    THEN /\ Has(topics', norm)
                         /\ TopicAt(topics', norm) = x
                         /\ x.batches_since_seen = 0
                         /\ x.state # "shrinking"
                    ELSE Has(topics', norm) =>
                           LET y == TopicAt(topics', norm) IN
                           /\ y.batches_since_seen = x.batches_since_seen + 1
                           /\ x.state \in {"entering", "growing"} =>
                                (y.state = "shrinking"
                                   <=> y.batches_since_seen >= stale_after)
                           /\ y.state # "shrinking" => y.state = x.state
          /\ CapStep(t) =>
               \A j \in 1..Len(topics') : \E i \in 1..Len(topics) : topics[i] = topics'[j]
       ]_vars

\* a topic that turned Shrinking in the merge that just ended
C28_Witness ==
  /\ StoreAtRest
  /\ \E i \in 1..Len(topics) :
       /\ topics[i].state = "shrinking"
       /\ topics[i].batches_since_seen = stale_after

\* C29: in the loop over the unseen topics a topic that is Shrinking (from
\* before or from this merge) has its score multiplied by decay_factor once
\* and is deleted exactly when the product is below min_score; any other
\* unseen topic keeps its score; so a topic unseen for N merges in Shrinking
\* state holds score0 * decay_factor^N.
C29_DecayOncePerUnseenMerge ==
  /\ [](StoreAtRest =>
          \A i \in 1..Len(topics) :
            \E score0 \in Scores :
              topics[i].score = Decayed(score0, ShrinkingMerges(topics[i])))
  /\ [][\A t \in MergerIds :
          UnseenStep(t) =>
            \A i \in 1..Len(topics) :
              LET x == topics[i]
                  norm == x.normalized_name
                  product == (x.score * DecayNum) \div DecayDen
              IN norm \notin mloc[t].seen =>
                   IF ShrinksNow(x)
                   THEN IF product < min_score THEN ~Has(topics', norm)
                        ELSE /\ Has(topics', norm)
                             /\ TopicAt(topics', norm).score = product
                   ELSE /\ Has(topics', norm)
                        /\ TopicAt(topics', norm).score = x.score
       ]_vars

\* a topic that was decayed twice and is kept with a score equal to min_score
C29_Witness ==
  /\ StoreAtRest
  /\ \E i \in 1..Len(topics) :
       /\ topics[i].state = "shrinking"
       /\ topics[i].batches_since_seen = stale_after + 1
       /\ topics[i].score = min_score

\* C30: a topic whose key the merge inserted and that is still stored when
\* the merge ends is Entering, with first_seen = last_seen = now and
\* batches_since_seen = 0, whatever the list, repeated names included.
C30_NewTopicEntering ==
  [][\A t \in MergerIds :
       CapStep(t) =>
         \A norm \in fresh :
           Has(topics', norm) =>
             LET y == TopicAt(topics', norm) IN
             /\ y.state = "entering"
             /\ y.first_seen = mloc[t].now
             /\ y.last_seen = mloc[t].now
             /\ y.batches_since_seen = 0
    ]_vars

\* the topics the step removed from the store
Evicted == {i \in 1..Len(topics) : ~Has(topics', topics[i].normalized_name)}

\* C31: when _enforce_cap removes topics, every removed topic has a score not
\* above the score of any topic that stays, with the scores as the rows and
\* the decay of this merge left them; a topic the merge inserted can be among
\* the removed ones.
C31_EvictsLowestScorers ==
  [][\A t \in MergerIds :
       CapStep(t) =>
         /\ \A i \in Evicted : \A j \in 1..Len(topics') :
              topics[i].score <= topics'[j].score
         /\ \A j \in 1..Len(topics') : \E i \in 1..Len(topics) : topics[i] = topics'[j]
         /\ Len(topics') = IF Len(topics) > max_active THEN max_active ELSE Len(topics)
    ]_vars

\* the cap removed a topic that the same merge had inserted, and kept one
\* with a higher score
C31_Witness ==
  /\ StoreAtRest
  /\ evicted > 0
  /\ \E norm \in fresh : ~Has(topics, norm)
  /\ \E i \in 1..Len(topics) : topics[i].score > 0

(***************************************************************************)
(* ViewSpec: TopicStore.merge and get_current_topics under the store lock  *)
(***************************************************************************)
MaxViewCalls == 3   \* merge and get_current_topics calls in a run

viewFrame == <<oldVars, curVars, rssVars, redVars, dbVars, lockVars>>

ViewInit ==
  /\ BufStart
  /\ StoreStart
  /\ ExtIdle
  /\ PipeIdle
  /\ PollIdle
  /\ CurIdle
  /\ RssIdle
  /\ RedIdle
  /\ DbIdle
  /\ ViewIdle
  /\ LockIdle

\* merge up to the lock: "if now is None: now = datetime.now(timezone.utc)"
ViewMergeCall(t, list) ==
  /\ vpc[t] = "idle"
  /\ vcalls < MaxViewCalls
  /\ vcalls' = vcalls + 1
  /\ \E now \in vclock..MaxTime :
       /\ vclock' = now
       /\ vloc' = [vloc EXCEPT ![t] = [now |-> now, source |-> ViewSource,
                                        list |-> list, rest |-> list]]
  /\ vpc' = [vpc EXCEPT ![t] = "lock"]
  /\ UNCHANGED <<vtopics, vlock, vshadow, vview>>
  /\ UNCHANGED viewFrame

\* get_current_topics up to the lock
ViewReadCall ==
  /\ vpc[Reader] = "idle"
  /\ vcalls < MaxViewCalls
  /\ vcalls' = vcalls + 1
  /\ vpc' = [vpc EXCEPT ![Reader] = "lock"]
  /\ UNCHANGED <<vtopics, vlock, vloc, vclock, vshadow, vview>>
  /\ UNCHANGED viewFrame

\* "with self._lock:" of merge
ViewMergeAcquire(t) ==
  /\ vpc[t] = "lock"
  /\ LockFree(vlock)
  /\ vlock' = t
  /\ vpc' = [vpc EXCEPT ![t] = "rows"]
  /\ UNCHANGED <<vtopics, vloc, vclock, vshadow, vview, vcalls>>
  /\ UNCHANGED viewFrame

\* _merge_locked: one row of new_topics
ViewMergeRow(t) ==
  /\ vpc[t] = "rows"
  /\ vloc[t].rest # <<>>
  /\ vtopics' = ApplyRow(vtopics, Head(vloc[t].rest), vloc[t].source, vloc[t].now)
  /\ vloc' = [vloc EXCEPT ![t].rest = Tail(@)]
  /\ UNCHANGED <<vlock, vpc, vclock, vshadow, vview, vcalls>>
  /\ UNCHANGED viewFrame

\* _merge_locked: the topics this batch did not name
ViewMergeUnseen(t) ==
  /\ vpc[t] = "rows"
  /\ vloc[t].rest = <<>>
  /\ vtopics' = ProcessUnseen(vtopics, SeenNames(vloc[t].list))
  /\ vpc' = [vpc EXCEPT ![t] = "cap"]
  /\ UNCHANGED <<vlock, vloc, vclock, vshadow, vview, vcalls>>
  /\ UNCHANGED viewFrame

\* _enforce_cap, and the lock is released; vshadow: the merges so far, each
\* applied in one piece, in the order in which they finished
ViewMergeCap(t) ==
  /\ vpc[t] = "cap"
  /\ vtopics' = WideCap(vtopics)
  /\ vshadow' = WideMerge(vshadow, vloc[t].list, vloc[t].source, vloc[t].now)
  /\ vlock' = None
  /\ vpc' = [vpc EXCEPT ![t] = "idle"]
  /\ vloc' = [vloc EXCEPT ![t] = NoViewLocals]
  /\ UNCHANGED <<vclock, vview, vcalls>>
  /\ UNCHANGED viewFrame

\* get_current_topics: "with self._lock: topics = [Topic(...) for t in
\* self._topics.values()]", entered and left in one step
ViewReadCopy ==
  /\ vpc[Reader] = "lock"
  /\ LockFree(vlock)
  /\ vview' = [raw |-> CopyOf(vtopics), at |-> vshadow, result |-> <<>>,
               before |-> <<>>]
  /\ vpc' = [vpc EXCEPT ![Reader] = "sort"]
  /\ UNCHANGED <<vtopics, vlock, vloc, vclock, vshadow, vcalls>>
  /\ UNCHANGED viewFrame

\* get_current_topics: "topics.sort(key=lambda t: t.score, reverse=True)",
\* after the lock was released
ViewReadSort ==
  /\ vpc[Reader] = "sort"
  /\ vview' = [vview EXCEPT !.result = SortByScoreDesc(vview.raw)]
  /\ vpc' = [vpc EXCEPT ![Reader] = "got"]
  /\ UNCHANGED <<vtopics, vlock, vloc, vclock, vshadow, vcalls>>
  /\ UNCHANGED viewFrame

\* the caller assigns to topics[k].score of the list it was given; an
\* element that is the stored object itself changes the store
ViewMutate(k, score) ==
  /\ vpc[Reader] = "got"
  /\ k \in 1..Len(vview.result)
  /\ vview' = [vview EXCEPT !.result[k].topic.score = score, !.before = vtopics]
  /\ vtopics' = IF vview.result[k].own THEN vtopics
                ELSE [i \in 1..Len(vtopics) |->
                        IF vtopics[i].normalized_name
                             = vview.result[k].topic.normalized_name
                        THEN [vtopics[i] EXCEPT !.score = score] ELSE vtopics[i]]
  /\ vpc' = [vpc EXCEPT ![Reader] = "idle"]
  /\ UNCHANGED <<vlock, vloc, vclock, vshadow, vcalls>>
  /\ UNCHANGED viewFrame

\* the caller drops the list
ViewDrop ==
  /\ vpc[Reader] = "got"
  /\ vpc' = [vpc EXCEPT ![Reader] = "idle"]
  /\ UNCHANGED <<vtopics, vlock, vloc, vclock, vshadow, vview, vcalls>>
  /\ UNCHANGED viewFrame

ViewNext ==
  \/ \E t \in MergerIds, list \in ViewLists : ViewMergeCall(t, list)
  \/ ViewReadCall
  \/ \E t \in MergerIds : ViewMergeAcquire(t)
  \/ \E t \in MergerIds : ViewMergeRow(t)
  \/ \E t \in MergerIds : ViewMergeUnseen(t)
  \/ \E t \in MergerIds : ViewMergeCap(t)
  \/ ViewReadCopy
  \/ ViewReadSort
  \/ \E k \in 1..wide_max_active, score \in Scores : ViewMutate(k, score)
  \/ ViewDrop

ViewSpec == ViewInit /\ [][ViewNext]_vars

\* the reader's list is in descending order of score
SortedDesc(s) == \A i, j \in 1..Len(s) : i < j => s[i].topic.score >= s[j].topic.score

\* the two lists hold the same elements
SameElements(a, b) ==
  /\ Len(a) = Len(b)
  /\ {a[i] : i \in 1..Len(a)} = {b[i] : i \in 1..Len(b)}

\* the threads inside "with self._lock:" of merge
InMerge == {t \in MergerIds : vpc[t] \in {"rows", "cap"}}

\* C32: merges are atomic and totally ordered: at most one thread is inside
\* the locked part of merge; whenever no merge holds the lock the store equals
\* the store that the finished merges, each applied in one piece with the
\* arguments and the timestamp its call used, yield in the order in which they
\* finished; what get_current_topics copied is such a store (never more than
\* max_active topics, never a half-applied merge); the list it returns holds
\* the copied topics as objects of their own in descending order of score; and
\* a caller assigning to a returned topic leaves the store as it was.
C32_MergesAtomicReadsWhole ==
  /\ [](Cardinality(InMerge) <= 1)
  /\ [](vlock = None => vtopics = vshadow)
  /\ [](/\ vview.raw = CopyOf(vview.at)
        /\ Len(vview.raw) <= wide_max_active)
  /\ [](vpc[Reader] = "got" =>
          /\ SortedDesc(vview.result)
          /\ SameElements(vview.result, vview.raw)
          /\ \A i \in 1..Len(vview.result) : vview.result[i].own)
  /\ [][vpc[Reader] = "got" /\ vpc'[Reader] = "idle" => vtopics' = vtopics]_vars

\* a reader was handed two topics which the sort had to swap and changed a
\* score in its list, the store still holds what it held before, and a merge
\* call of another thread is under way
C32_Witness ==
  /\ Len(vview.raw) = 2
  /\ vview.raw[1].topic.score < vview.raw[2].topic.score
  /\ vview.before # <<>>
  /\ \E k \in 1..2 : vview.result[k].topic \notin {vview.raw[i].topic : i \in 1..2}
  /\ \E t \in MergerIds : vpc[t] # "idle"

(***************************************************************************)
(* LockSpec: the threads of a pipeline and the four component mutexes      *)
(***************************************************************************)
lockFrame == <<oldVars, curVars, rssVars, redVars, dbVars, viewVars>>

LockInit ==
  /\ BufStart
  /\ StoreStart
  /\ ExtIdle
  /\ PipeIdle
  /\ PollIdle
  /\ CurIdle
  /\ RssIdle
  /\ RedIdle
  /\ DbIdle
  /\ ViewIdle
  /\ LockIdle

\* the locks thread t holds
Held(t) == {l \in Locks : lk[l] = t}

\* thread t enters one of its calls
LockCall(t, job) ==
  /\ todo[t] = <<>>
  /\ job \in Jobs(t)
  /\ todo' = [todo EXCEPT ![t] = job]
  /\ UNCHANGED <<lk, incb>>
  /\ UNCHANGED lockFrame

\* threading.Lock.acquire: blocks while any thread, the caller included,
\* holds the lock
LockAcquire(t) ==
  /\ todo[t] # <<>>
  /\ Head(todo[t]).op = "acq"
  /\ lk[Head(todo[t]).x] = ""
  /\ lk' = [lk EXCEPT ![Head(todo[t]).x] = t]
  /\ todo' = [todo EXCEPT ![t] = Tail(@)]
  /\ UNCHANGED incb
  /\ UNCHANGED lockFrame

\* the end of a with block
LockRelease(t) ==
  /\ todo[t] # <<>>
  /\ Head(todo[t]).op = "rel"
  /\ lk' = [lk EXCEPT ![Head(todo[t]).x] = ""]
  /\ todo' = [todo EXCEPT ![t] = Tail(@)]
  /\ UNCHANGED incb
  /\ UNCHANGED lockFrame

\* _flush calls on_batch, the extractor runs, on_batch returns
LockCallback(t) ==
  /\ todo[t] # <<>>
  /\ Head(todo[t]).op \in {"call", "extract", "ret"}
  /\ incb' = [incb EXCEPT ![t] = Head(todo[t]).op # "ret"]
  /\ todo' = [todo EXCEPT ![t] = Tail(@)]
  /\ UNCHANGED lk
  /\ UNCHANGED lockFrame

LockNext ==
  \/ \E t \in LockThreads, job \in UNION {Jobs(u) : u \in LockThreads} : LockCall(t, job)
  \/ \E t \in LockThreads : LockAcquire(t)
  \/ \E t \in LockThreads : LockRelease(t)
  \/ \E t \in LockThreads : LockCallback(t)

LockSpec == LockInit /\ [][LockNext]_vars

\* thread t waits for a lock that is held
Blocked(t) ==
  /\ todo[t] # <<>>
  /\ Head(todo[t]).op = "acq"
  /\ lk[Head(todo[t]).x] # ""

\* thread t is about to call on_batch or is in the extractor
AtCallback(t) == todo[t] # <<>> /\ Head(todo[t]).op \in {"call", "extract"}

\* C33: no callback is invoked with a component mutex held: a thread that is
\* about to call on_batch, or that is in the extractor, holds none of the four
\* locks (so add_post of another thread finds the buffer lock free or held
\* only for the length of an append or a swap, and an on_batch that calls
\* add_post can take it); no thread ever holds two of the locks; and every
\* thread that waits for a lock waits for another thread that is itself not
\* waiting, so that no deadlock among the four locks is reachable.
C33_NoCallbackUnderLock ==
  /\ \A t \in LockThreads : AtCallback(t) => Held(t) = {}
  /\ \A t \in LockThreads : Cardinality(Held(t)) <= 1
  /\ \A t \in LockThreads :
       Blocked(t) => LET h == lk[Head(todo[t]).x] IN h # t /\ ~Blocked(h)

\* the worker is in the extractor inside on_batch, the timer thread holds
\* the buffer lock meanwhile, and the main thread waits for it
C33_Witness ==
  /\ incb["worker"] /\ AtCallback("worker")
  /\ lk["buffer"] = "timer"
  /\ Blocked("main") /\ Head(todo["main"]).x = "buffer"

(***************************************************************************)
(* Claims about the PostBuffer's threads                                   *)
(***************************************************************************)
\* C34: no batch cut from the buffer or passed to on_batch holds more than
\* max_batch_size posts, also when several threads call add_post around the
\* moment the cap is reached.
C34_BatchWithinCap ==
  /\ \A i \in 1..Len(cuts) : cuts[i].post_count <= max_batch_size
  /\ \A i \in 1..Len(emitted) : emitted[i].post_count <= max_batch_size

\* C35: while the buffer runs, a timer-driven flush swaps the buffer a full
\* window_seconds after the start of the window it closes, also when an early
\* flush has begun that window after the timer was scheduled.
C35_TimerFlushAfterFullWindow ==
  [][\A k \in TimerIds :
       running /\ pc[k] = "flush_lock" /\ pc'[k] # "flush_lock"
         => loc[k].now >= window_start + window_seconds]_vars

\* the Timer objects that were started and have neither fired nor been
\* cancelled
PendingTimers == {k \in TimerIds : pc[k] = "pending"}

\* C36: at most one flush timer is pending at any time, and none is pending
\* while the buffer is stopped, whatever the interleaving of start(), stop(),
\* a further start() and a timer callback that was already running when
\* stop() ran.
C36_AtMostOneTimer ==
  /\ Cardinality(PendingTimers) <= 1
  /\ ~running => PendingTimers = {}

(***************************************************************************)
(* Claims about the pipeline's threads                                     *)
(***************************************************************************)
\* stop() has called buffer.stop() and that call, with its flush, has returned
BufferStopReturned == "buffer" \in Range(stopLog) /\ ob["main"].pos = "idle"

\* C37: once PostBuffer.stop() has returned inside the pipeline's stop(), no
\* thread is in an _on_batch call (extract and merge, snapshot, or
\* mark_batch_processed) - so none of these runs after the final snapshot or
\* after the post log was closed - also when a timer-driven or cap-triggered
\* flush was in progress when stop() was called.
C37_QuietAfterBufferStop ==
  BufferStopReturned => \A t \in PThreads : ob[t].pos = "idle"

\* the threads inside an _on_batch call
InOnBatch == {t \in PThreads : ob[t].pos # "idle"}

\* C38: batches are handed to on_batch one at a time: no two threads are
\* inside _on_batch at once (so that the store merges the batches in the
\* order in which they were cut), also when a timer-driven flush and a
\* cap-triggered flush happen concurrently.
C38_OneBatchAtATime == Cardinality(InOnBatch) <= 1

\* thread t's _on_batch call ends in this step with save_snapshot or
\* cleanup_snapshots raising
SnapshotRaises(t) ==
  /\ ob[t].pos = "snapshot"
  /\ ob'[t].pos = "idle"
  /\ crashes' = crashes

\* C39: when writing or cleaning up the snapshot fails during _on_batch, the
\* posts of the batch are nevertheless marked processed in the post log.
C39_SnapshotFailureStillMarks ==
  [][\A t \in PThreads :
       SnapshotRaises(t) => \A p \in Range(ob[t].batch) : processed'[p] # 0]_vars

\* the entries of the last cycle that were new, have text and were not
\* passed to on_post
Undelivered ==
  {i \in 1..Len(cycle.entries) :
     /\ _get_entry_id(cycle.entries[i]) \notin cycle.before.ids
     /\ cycle.entries[i].text
     /\ TimesEmitted(i) = 0}

\* C40: after a cycle answered with 200 in which on_post raised, the feed's
\* id set holds the id of no new entry that was not passed to on_post, and
\* while such an entry exists ETag and Last-Modified are those from before
\* the cycle - so that a later cycle of the feed emits the entry.
C40_FailureLosesNoEntry ==
  (cycle.status = 200 /\ cycle.raised) =>
     /\ \A i \in Undelivered : _get_entry_id(cycle.entries[i]) \notin seen_ids[cycle.feed]
     /\ Undelivered # {} => /\ etags[cycle.feed] = cycle.before.etag
                            /\ last_modified[cycle.feed] = cycle.before.lm

====
